---- MODULE Spec2Model ----
(***************************************************************************)
(* The message feed of ChatsPage (src/src/pages/ChatsPage.tsx): the React  *)
(* state of the component, the requests it has in flight, the snapshot     *)
(* listeners it has registered, and the message collection of the backend. *)
(* Spec is the feed with the side bar, the creation of groups and the      *)
(* unmount of the page; SpecJoin is the join modal of three signed-in      *)
(* sessions over the group documents of the backend; SpecInvite is the     *)
(* generation of invite codes by the page while the other user joins.      *)
(* SpecSignUp is AuthPage (src/unnamed/part_000) in two browsers over the  *)
(* auth provider and the users and usernames collections; SpecVerify is    *)
(* one browser from its sign-up through VerifyEmail (src/unnamed/part_002) *)
(* under the routes of App (src/unnamed/part_003). SpecSend is the message *)
(* form of the page; SpecBusy is the operations that show a busy flag.     *)
(*                                                                         *)
(* One action is one synchronous run of a handler or callback (the code    *)
(* between two awaits) together with the render it causes: the state       *)
(* updates of one run are applied in one batch, and the effects whose      *)
(* dependencies changed are re-run in the same step.                       *)
(***************************************************************************)
EXTENDS Integers, Sequences, FiniteSets, TLC

\* ------------------------------------------------------------------ bounds

\* Stored messages of group 1 and of group 2 in the initial state.
SmallGroupSize == 2
BigGroupSize == 26
\* Group selections (by a click in the side bar or by creating a group) and
\* message writes explored in one behaviour.
MaxSelects == 2
MaxWrites == 1
\* Calls of handleJoinGroup explored in one behaviour.
MaxJoins == 2
\* Calls of generateInviteCode explored in one behaviour.
MaxInvites == 1
\* Submissions of the form of AuthPage, firings of the interval and of the
\* refresh button of VerifyEmail, and answered calls of
\* updateUserVerificationStatus explored in one behaviour.
MaxSubmits == 2
MaxTicks == 1
MaxUpdates == 1

\* ------------------------------------------------------- program constants

MESSAGES_PER_PAGE == 25
\* limit(25) of the message listener effect and limit(1) of the listener of
\* handleGroupSelect
LISTENER_LIMIT == 25
REALTIME_LIMIT == 1

Groups == {1, 2}
NoGroup == 0

VARIABLES
    \* React state of ChatsPage
    selectedGroup,      \* id of the selected group, NoGroup for null
    messages,           \* the message list, as rendered
    lastMessageRef,     \* <<>> for null, else <<document snapshot>>
    hasMoreMessages,
    isLoadingMore,
    messageListener,    \* set of subscription ids; {} for null
    groups,             \* ids of the groups of the side bar
    creatingGroup,
    newMessage,         \* the text of the message input
    userData,           \* <<>> for null, else <<the user document>>
    mounted,            \* FALSE once the page has been unmounted
    \* what the effects and callbacks have registered
    observer,           \* <<>>, or <<the values the callback closed over>>
    effectSub,          \* the listener of the message listener effect
    liveSubs,           \* the listeners registered by handleGroupSelect
    groupsPending,      \* the groups listener has a snapshot to deliver
    scrollTimer,        \* a setTimeout(scrollToBottom, 100) is pending
    \* requests awaiting their response
    inflight,
    \* the backend
    store,              \* the message documents, oldest first
    groupDocs,          \* the group documents, by id
    clock,
    authCurrentUser,    \* auth.currentUser of the page: <<>> or <<uid>>
    \* the join modal of each signed-in session
    sessions,
    \* the invite modal of the page and the writes of generateInviteCode
    \* that await their response
    showInviteModal,
    inviteWrites,
    \* the browsers that run App, with AuthPage and VerifyEmail
    browsers,
    \* the auth provider and the users and usernames collections
    accounts,
    users,
    usernames,
    \* bookkeeping of the exploration
    nSelects, nWrites, nJoins, nInvites, nSubmits, nTicks, nUpdates

vars == <<selectedGroup, messages, lastMessageRef, hasMoreMessages,
          isLoadingMore, messageListener, groups, creatingGroup, mounted,
          observer, effectSub, liveSubs, groupsPending, scrollTimer,
          inflight, store, groupDocs, clock, sessions,
          showInviteModal, inviteWrites,
          newMessage, userData, authCurrentUser,
          browsers, accounts, users, usernames,
          nSelects, nWrites, nJoins, nInvites, nSubmits, nTicks, nUpdates>>

feedVars == <<messages, lastMessageRef, hasMoreMessages>>

\* The variables that handleSendMessage reads besides the selected group.
sendVars == <<newMessage, userData, authCurrentUser>>

\* The variables that the join modal does not touch.
pageVars == <<selectedGroup, messages, lastMessageRef, hasMoreMessages,
              isLoadingMore, messageListener, groups, creatingGroup, mounted,
              observer, effectSub, liveSubs, scrollTimer, inflight, store,
              clock, nSelects, nWrites, sendVars>>

\* The variables that only the join modal touches.
joinVars == <<sessions, nJoins>>

\* The variables that only generateInviteCode and the invite modal touch.
inviteVars == <<showInviteModal, inviteWrites, nInvites>>

\* The variables of the accounts: App, AuthPage and VerifyEmail of each
\* browser, the auth provider, the users and usernames collections.
accountVars == <<browsers, accounts, users, usernames,
                 nSubmits, nTicks, nUpdates>>

\* The variables that neither the feed nor the join modal touches.
elsewhereVars == <<inviteVars, accountVars>>

\* The variables of ChatsPage and of the groups collection.
chatVars == <<pageVars, joinVars, inviteVars, groupDocs, groupsPending>>

\* ------------------------------------------------------------- documents

\* A Firestore timestamp: clock ticks are half seconds.
Timestamp(t) == [seconds |-> t \div 2, nanoseconds |-> (t % 2) * 500000000]

\* interface Message: timestamp is <<>> while the server timestamp is
\* pending (doc.data() gives null), createdAt is the client's clock at send.
\* The documents that other clients have written carry the content "m".
Doc(i, g, ts, at) ==
    [id |-> i, groupId |-> g, timestamp |-> ts, createdAt |-> at,
     content |-> <<"m">>, senderId |-> "other", senderName |-> <<"a", "l">>]

Resolved(d) == d.timestamp # <<>>

\* The order of full timestamps: seconds, then nanoseconds.
TsLess(a, b) ==
    \/ a.seconds < b.seconds
    \/ a.seconds = b.seconds /\ a.nanoseconds < b.nanoseconds

InitialStore ==
    [i \in 1..(SmallGroupSize + BigGroupSize) |->
        Doc(i, IF i <= SmallGroupSize THEN 1 ELSE 2, <<Timestamp(i)>>, i)]

\* A store in which group 2 holds exactly one page of messages.
OnePageStore == SubSeq(InitialStore, 1, SmallGroupSize + MESSAGES_PER_PAGE)

\* ----------------------------------------------------------- sequences

Min(a, b) == IF a < b THEN a ELSE b

RECURSIVE Reverse(_)
Reverse(s) == IF s = <<>> THEN <<>> ELSE Append(Reverse(Tail(s)), Head(s))

Take(s, n) == SubSeq(s, 1, Min(n, Len(s)))

HasId(s, i) == \E k \in 1..Len(s) : s[k].id = i

\* ---------------------------------------------------------------- queries

\* where('groupId', '==', g), orderBy('timestamp', 'desc'): the store keeps
\* the documents in the order of the backend, pending writes last.
GroupDocsDesc(g) == Reverse(SelectSeq(store, LAMBDA d : d.groupId = g))

\* startAfter(c): the documents that come strictly after the snapshot c in
\* descending order of timestamp; a pending server timestamp orders after
\* every resolved one.
ComesAfter(d, c) ==
    IF Resolved(c)
    THEN Resolved(d) /\ TsLess(d.timestamp[1], c.timestamp[1])
    ELSE Resolved(d) \/ d.createdAt < c.createdAt

StartAfter(s, c) == SelectSeq(s, LAMBDA d : ComesAfter(d, c))

\* The query of loadMessages, evaluated when the response arrives.
MessagesQuery(g, lastRef) ==
    IF lastRef # <<>>
    THEN Take(StartAfter(GroupDocsDesc(g), lastRef[1]), MESSAGES_PER_PAGE)
    ELSE Take(GroupDocsDesc(g), MESSAGES_PER_PAGE)

InitialQuery(g) == Take(GroupDocsDesc(g), MESSAGES_PER_PAGE)

ListenerQuery(g) == Take(GroupDocsDesc(g), LISTENER_LIMIT)

RealtimeQuery(g) == Take(GroupDocsDesc(g), REALTIME_LIMIT)

\* ------------------------------------------------------------ list updates

\* timeA = a.timestamp?.seconds || 0
SortKey(d) == IF Resolved(d) THEN d.timestamp[1].seconds ELSE 0

\* Array.prototype.sort with (a, b) => timeA - timeB: stable, by seconds.
RECURSIVE InsertBySeconds(_, _)
InsertBySeconds(s, d) ==
    IF s = <<>> THEN <<d>>
    ELSE IF SortKey(s[Len(s)]) <= SortKey(d) THEN Append(s, d)
    ELSE Append(InsertBySeconds(SubSeq(s, 1, Len(s) - 1), d), s[Len(s)])

RECURSIVE SortedMessages(_)
SortedMessages(s) ==
    IF s = <<>> THEN <<>>
    ELSE InsertBySeconds(SortedMessages(SubSeq(s, 1, Len(s) - 1)), s[Len(s)])

\* setMessages of loadMessages: append a later page, replace on a first load.
LoadedMessages(prev, newMessages, lastRef) ==
    IF lastRef # <<>> THEN prev \o newMessages ELSE newMessages

\* setMessages of handleGroupSelect after the initial fetch.
InitialMessages(snapshotDocs) == snapshotDocs

\* An updater that prepends without looking for the id.
MergeAddedAlways(prev, added) == <<added>> \o prev

\* The updater of the listener of handleGroupSelect.
MergeAdded(prev, added) ==
    IF ~HasId(prev, added.id) THEN <<added>> \o prev ELSE prev

\* A page that is not empty counts as "more to come".
HasMoreNonEmpty(snapshotDocs) == Len(snapshotDocs) > 0

\* setHasMoreMessages(snapshot.docs.length === MESSAGES_PER_PAGE)
HasMore(snapshotDocs) == Len(snapshotDocs) = MESSAGES_PER_PAGE

\* setLastMessageRef(snapshot.docs[snapshot.docs.length - 1]) when non-empty
NextLastRef(snapshotDocs, old) ==
    IF Len(snapshotDocs) > 0 THEN <<snapshotDocs[Len(snapshotDocs)]>> ELSE old

\* ---------------------------------------------------------------- strings

\* A string is the sequence of its characters.
LowerCaseLetters ==
    <<"a", "b", "c", "d", "e", "f", "g", "h", "i", "j", "k", "l", "m",
      "n", "o", "p", "q", "r", "s", "t", "u", "v", "w", "x", "y", "z">>

UpperCaseLetters ==
    <<"A", "B", "C", "D", "E", "F", "G", "H", "I", "J", "K", "L", "M",
      "N", "O", "P", "Q", "R", "S", "T", "U", "V", "W", "X", "Y", "Z">>

DecimalDigits == <<"0", "1", "2", "3", "4", "5", "6", "7", "8", "9">>

ToUpperCaseChar(c) ==
    IF \E k \in 1..Len(LowerCaseLetters) : LowerCaseLetters[k] = c
    THEN UpperCaseLetters[CHOOSE k \in 1..Len(LowerCaseLetters) :
                              LowerCaseLetters[k] = c]
    ELSE c

\* String.prototype.toUpperCase
ToUpperCase(s) == [k \in 1..Len(s) |-> ToUpperCaseChar(s[k])]

RECURSIVE TrimStart(_)
TrimStart(s) ==
    IF s # <<>> /\ Head(s) = " " THEN TrimStart(Tail(s)) ELSE s

RECURSIVE TrimEnd(_)
TrimEnd(s) ==
    IF s # <<>> /\ s[Len(s)] = " " THEN TrimEnd(SubSeq(s, 1, Len(s) - 1)) ELSE s

\* String.prototype.trim
Trim(s) == TrimEnd(TrimStart(s))

\* String.prototype.substring(start, end) for 0 <= start <= end: the
\* characters at the 0-based positions start .. end - 1 that exist.
Substring(s, start, end) ==
    SubSeq(s, Min(start, Len(s)) + 1, Min(end, Len(s)))

\* A value of Math.random() is the sequence of the digits (0 .. 35) of its
\* base-36 fraction as Number.prototype.toString(36) prints it: no digit
\* for 0, and never a trailing 0.

\* The character of a base-36 digit: "0" .. "9", then "a" .. "z".
DigitChar(d) == (DecimalDigits \o LowerCaseLetters)[d + 1]

\* Number.prototype.toString(36) of a value in [0, 1)
ToString36(r) ==
    IF r = <<>> THEN <<"0">>
    ELSE <<"0", ".">> \o [k \in 1..Len(r) |-> DigitChar(r[k])]

\* Math.random().toString(36).substring(2, 10).toUpperCase()
InviteCodeOf(r) == ToUpperCase(Substring(ToString36(r), 2, 10))

\* ----------------------------------------------------------- group documents

\* auth.currentUser.uid of the page, and the uid of another user
Me == "me"
Other == "other"

\* The signed-in sessions: the page, a second tab of its user, and a page
\* of the other user.
Sessions == {1, 2, 3}
SessionUser == <<Me, Me, Other>>

\* A document of the groups collection; inviteCode is <<>> while the field
\* is absent, exists is FALSE once a local write has been rolled back.
GroupDoc(members, inviteCode) ==
    [members |-> members, inviteCode |-> inviteCode, exists |-> TRUE]

\* Group 2 of the user of the page and group 3 of the other user have an
\* invite code, group 1 of both users has none.
InitialGroupDocs ==
    << GroupDoc(<<Me, Other>>, <<>>),
       GroupDoc(<<Me>>, << <<"A", "B">> >>),
       GroupDoc(<<Other>>, << <<"B", "A">> >>) >>

\* Array.prototype.includes
Includes(arr, x) == \E k \in 1..Len(arr) : arr[k] = x

GroupIds == [g \in 1..Len(groupDocs) |-> g]

\* where('members', 'array-contains', uid), in the order of the document ids
GroupsQuery(uid) ==
    SelectSeq(GroupIds, LAMBDA g : groupDocs[g].exists
                                      /\ Includes(groupDocs[g].members, uid))

\* The messages of the alerts of handleJoinGroup; BackendError stands for
\* the message of an error thrown by the backend.
NoAlert == ""
InvalidInviteCode == "Invalid invite code"
AlreadyMember == "You are already a member of this group"
BackendError == "backend error"

\* The join modal of a session, closed and never used: pc is the await at
\* which handleJoinGroup stands, code its argument, group the id of the
\* document it updates, alert the message of the last alert.
IdleSession ==
    [showJoinModal |-> FALSE, inviteCode |-> <<>>, joining |-> FALSE,
     alert |-> NoAlert, pc |-> "idle", code |-> <<>>, group |-> NoGroup]

\* The texts typed into the input of the modal: " ab ", "ba", "bb", " ".
TypedTexts ==
    { <<" ", "a", "b", " ">>, <<"b", "a">>, <<"b", "b">>, <<" ">> }

\* ---------------------------------------------------------------- accounts

\* String.prototype.toLowerCase
ToLowerCaseChar(c) ==
    IF \E k \in 1..Len(UpperCaseLetters) : UpperCaseLetters[k] = c
    THEN LowerCaseLetters[CHOOSE k \in 1..Len(UpperCaseLetters) :
                              UpperCaseLetters[k] = c]
    ELSE c

ToLowerCase(s) == [k \in 1..Len(s) |-> ToLowerCaseChar(s[k])]

\* The browsers, each with its own App and its own auth session.
Browsers == {1, 2}

\* null for a user
NoUser == 0

\* The values typed into the form of AuthPage: two passwords of 6 and of 5
\* characters, the user names "Bob", "bob" and "al".
Secret == <<"s", "e", "c", "r", "e", "t">>
Short == <<"s", "h", "o", "r", "t">>
Bob == <<"B", "o", "b">>
LowerBob == <<"b", "o", "b">>
Al == <<"a", "l">>

AuthForm(email, password, confirmPassword, username) ==
    [email |-> email, password |-> password,
     confirmPassword |-> confirmPassword, username |-> username]

\* The submissions of the form in sign-up mode.
SignUpForms ==
    { AuthForm("a@x", Secret, Secret, Bob),
      AuthForm("b@x", Secret, Secret, LowerBob),
      AuthForm("a@x", Secret, Short, Bob),
      AuthForm("a@x", Short, Short, Bob),
      AuthForm("a@x", Secret, Secret, Al),
      AuthForm("a@x", Secret, Secret, <<>>) }

\* The submissions of the form in sign-in mode, which has no field for the
\* user name and none for the confirmation.
SignInForms ==
    { AuthForm("a@x", Secret, <<>>, <<>>),
      AuthForm("a@x", Short, <<>>, <<>>) }

\* The submission of the browser that goes on to verify its email: the
\* sign-up of "Bob".
VerifyForms == { AuthForm("a@x", Secret, Secret, Bob) }

\* The ids of the documents of the usernames collection.
UsernameKeys == {ToLowerCase(f.username) : f \in SignUpForms}

\* The messages that handleAuth and VerifyEmail show.
NoMessage == ""
PasswordsDoNotMatch == "Passwords do not match"
PasswordTooShort == "Password must be at least 6 characters long"
UsernameTooShort == "Username must be at least 3 characters long"
UsernameTaken == "Username is already taken"
EmailInUse == "This email is already registered. Please sign in instead."
InvalidCredentials == "Invalid email or password."
AccountCreated == "Account created! Please check your email for verification."
EmailVerifiedMessage == "Email verified! Redirecting..."
NotVerifiedYet == "Email not verified yet. Please check your inbox."
RefreshFailed == "Error checking verification status."

\* The validation of handleAuth with the check of the length of the
\* password left out.
ValidationErrorNoLength(f) ==
    IF f.password # f.confirmPassword THEN PasswordsDoNotMatch
    ELSE IF f.username = <<>> \/ Len(f.username) < 3 THEN UsernameTooShort
    ELSE NoMessage

\* The validation checks of handleAuth in sign-up mode: the message of the
\* first check that fails, NoMessage when all pass.
ValidationError(f) ==
    IF f.password # f.confirmPassword THEN PasswordsDoNotMatch
    ELSE IF Len(f.password) < 6 THEN PasswordTooShort
    ELSE IF f.username = <<>> \/ Len(f.username) < 3 THEN UsernameTooShort
    ELSE NoMessage

\* An account of the auth provider; its uid is its position in accounts.
Account(email, password) ==
    [email |-> email, password |-> password, displayName |-> <<>>,
     emailVerified |-> FALSE, mailed |-> FALSE]

\* The document that createUserDocument writes to the users collection.
UserDocument(email, username) ==
    [email |-> email, username |-> username, emailVerified |-> FALSE]

\* The uid of the account of an email, NoUser when there is none.
AccountOf(email) ==
    IF \E u \in 1..Len(accounts) : accounts[u].email = email
    THEN CHOOSE u \in 1..Len(accounts) : accounts[u].email = email
    ELSE NoUser

\* A call of handleAuth that is not running.
IdleCall ==
    [pc |-> "idle", form |-> AuthForm("", <<>>, <<>>, <<>>), uid |-> NoUser,
     live |-> FALSE]

\* ------------------------------------------------------------------ routes

\* The element of the route of a path as App rendered it: user is whether
\* its user state was set, verified the value of user.emailVerified that
\* the render read.
RouteElement(path, user, verified) ==
    CASE path = "/" -> [navigate |-> FALSE, to |-> "HomePage"]
      [] path = "/auth" ->
            IF user THEN [navigate |-> TRUE, to |-> "/chats"]
            ELSE [navigate |-> FALSE, to |-> "AuthPage"]
      [] path = "/verify-email" ->
            IF ~user THEN [navigate |-> TRUE, to |-> "/auth"]
            ELSE IF verified THEN [navigate |-> TRUE, to |-> "/chats"]
            ELSE [navigate |-> FALSE, to |-> "VerifyEmail"]
      [] path = "/chats" ->
            IF ~user THEN [navigate |-> TRUE, to |-> "/auth"]
            ELSE IF ~verified THEN [navigate |-> TRUE, to |-> "/verify-email"]
            ELSE [navigate |-> FALSE, to |-> "ChatsPage"]

\* The page and the location that a path leads to, through the Navigate
\* elements on the way.
RECURSIVE Resolve(_, _, _)
Resolve(path, user, verified) ==
    LET element == RouteElement(path, user, verified) IN
    IF element.navigate THEN Resolve(element.to, user, verified)
    ELSE [location |-> path, page |-> element.to]

\* A browser that has just loaded the app at /auth with no session: App
\* shows its loader and the first call of its auth listener is due.
NewBrowser ==
    [ \* the auth session: auth.currentUser and its emailVerified field
      currentUser |-> NoUser, emailVerified |-> FALSE,
      \* App: its state, what its last render read from user.emailVerified,
      \* and the calls of its auth listener that are due or await reload
      appLoading |-> TRUE, appUser |-> NoUser, renderedVerified |-> FALSE,
      appCalls |-> <<[user |-> NoUser, pc |-> "notify"]>>,
      \* the router
      location |-> "/auth", page |-> "Loader",
      \* AuthPage: its state and its call of handleAuth
      isSignUp |-> FALSE, error |-> NoMessage, message |-> NoMessage,
      loading |-> FALSE, call |-> IdleCall,
      \* VerifyEmail: its state, its interval, its pending timeouts of
      \* navigate('/chats'), and the calls that are due or await a response
      verifyMessage |-> NoMessage, verifyError |-> NoMessage,
      verifyLoading |-> FALSE, interval |-> FALSE, timeouts |-> 0,
      signingOut |-> FALSE, verifyCalls |-> <<>> ]

\* A call of checkVerification ("check"), of handleManualRefresh
\* ("refresh") or of the callback of the auth listener of VerifyEmail
\* ("listener"): pc is where it stands, live whether the VerifyEmail that
\* started it is still mounted.
VerifyCall(kind, pc, user) ==
    [kind |-> kind, pc |-> pc, user |-> user, live |-> TRUE]

\* The effects of VerifyEmail on mount: checkVerification() is called, which
\* awaits reload(user) when a user is signed in, the interval is set, and
\* the auth listener is registered, whose first call is due.
VerifyEmailMounted(br) ==
    [br EXCEPT !.verifyMessage = NoMessage,
               !.verifyError = NoMessage,
               !.verifyLoading = FALSE,
               !.interval = TRUE,
               !.verifyCalls =
                   @ \o (IF br.currentUser # NoUser
                         THEN <<VerifyCall("check", "reload", br.currentUser)>>
                         ELSE <<>>)
                     \o <<VerifyCall("listener", "notify", NoUser)>>]

\* The cleanups of VerifyEmail: the interval is cleared and the listener
\* unsubscribed; calls that await a response and timeouts go on.
VerifyEmailUnmounted(br) ==
    [br EXCEPT !.interval = FALSE,
               !.verifyCalls =
                   [k \in 1..Len(SelectSeq(@, LAMBDA c : c.pc # "notify")) |->
                       [SelectSeq(@, LAMBDA c : c.pc # "notify")[k]
                           EXCEPT !.live = FALSE]]]

\* AuthPage mounts with its initial state; when it unmounts, the state
\* updates of a running handleAuth are dropped.
AuthPageMounted(br) ==
    [br EXCEPT !.isSignUp = FALSE, !.error = NoMessage,
               !.message = NoMessage, !.loading = FALSE]

AuthPageUnmounted(br) == [br EXCEPT !.call.live = FALSE]

\* The router shows a path. The page shown stays mounted when the path is
\* its location and the route still renders it; otherwise it is unmounted,
\* also when Navigate elements lead back to its route, and the page that
\* the path leads to is mounted.
Show(br, path) ==
    LET r == Resolve(path, br.appUser # NoUser, br.renderedVerified)
        stays == path = br.location /\ r.page = br.page
        left == IF stays THEN br
                ELSE IF br.page = "VerifyEmail" THEN VerifyEmailUnmounted(br)
                ELSE IF br.page = "AuthPage" THEN AuthPageUnmounted(br)
                ELSE br
        at == [left EXCEPT !.location = r.location, !.page = r.page]
    IN  IF stays THEN at
        ELSE IF r.page = "VerifyEmail" THEN VerifyEmailMounted(at)
        ELSE IF r.page = "AuthPage" THEN AuthPageMounted(at)
        ELSE at

\* navigate(path): nothing is shown while App renders its loader.
Navigate(br, path) ==
    IF br.appLoading THEN [br EXCEPT !.location = path] ELSE Show(br, path)

\* The auth session changes to a user: the listeners are called.
AuthStateChanged(br, uid, verified) ==
    [br EXCEPT !.currentUser = uid,
               !.emailVerified = verified,
               !.appCalls = Append(@, [user |-> uid, pc |-> "notify"]),
               !.verifyCalls =
                   IF br.page = "VerifyEmail"
                   THEN Append(@, VerifyCall("listener", "notify", NoUser))
                   ELSE @]

\* ----------------------------------------------------------------- effects

Closure(sg, hm, lm, ref) ==
    [selectedGroup |-> sg, hasMoreMessages |-> hm, isLoadingMore |-> lm,
     lastMessageRef |-> ref]

\* The observer effect with isLoadingMore left out of its dependencies.
ObserverEffectStale(sg, hm, lm, ref) ==
    IF hm = hasMoreMessages THEN observer
    ELSE IF sg = NoGroup THEN <<>>
    ELSE <<[selectedGroup |-> sg, hasMoreMessages |-> hm, isLoadingMore |-> lm,
            lastMessageRef |-> ref]>>

\* useEffect(..., [hasMoreMessages, isLoadingMore]): when a dependency has
\* changed the old observer is disconnected and, if the messages container
\* is mounted (a group is selected), a new one observes it; its callback
\* closes over the values of that render.
ObserverEffect(sg, hm, lm, ref) ==
    IF hm = hasMoreMessages /\ lm = isLoadingMore THEN observer
    ELSE IF sg = NoGroup THEN <<>>
    ELSE <<Closure(sg, hm, lm, ref)>>

NoSub == [group |-> NoGroup, pending |-> FALSE, messagesLength |-> 0]

\* useEffect(..., [selectedGroup?.id]): on a change of the group id the old
\* listener is unsubscribed and one for the new group is registered; its
\* first snapshot is still to come, and its callback closes over the
\* messages of that render, of which it reads the length.
MessageListenerEffect(sg, msgs) ==
    IF sg = selectedGroup THEN effectSub
    ELSE IF sg = NoGroup THEN NoSub
    ELSE [group |-> sg, pending |-> TRUE, messagesLength |-> Len(msgs)]

\* A write to group g changes the result of the effect's query on g.
Notified(sub, g) == IF sub.group = g THEN [sub EXCEPT !.pending = TRUE] ELSE sub

\* if (sortedMessages.length > messages.length), messages being the list
\* of the render in which the effect ran
ShouldScroll(sortedMessages, messagesLength) ==
    Len(sortedMessages) > messagesLength

\* -------------------------------------------------------------------- Init

\* The user document of the user of the page, as fetchUserData reads it.
LoadedUserData == [username |-> <<"m", "e">>]

\* The page once it has loaded, with the groups of its user in the side bar
\* and the result of fetchUserData: the user document, or null when the
\* users collection has no document for the user.
InitLoaded(messageDocs, data) ==
    /\ newMessage = <<>>
    /\ userData = data
    /\ authCurrentUser = <<Me>>
    /\ selectedGroup = NoGroup
    /\ messages = <<>>
    /\ lastMessageRef = <<>>
    /\ hasMoreMessages = TRUE
    /\ isLoadingMore = FALSE
    /\ messageListener = {}
    /\ groups = <<1, 2>>
    /\ creatingGroup = FALSE
    /\ mounted = TRUE
    /\ observer = <<>>
    /\ effectSub = NoSub
    /\ liveSubs = {}
    /\ groupsPending = FALSE
    /\ scrollTimer = FALSE
    /\ inflight = <<>>
    /\ store = messageDocs
    /\ groupDocs = InitialGroupDocs
    /\ clock = SmallGroupSize + BigGroupSize + 1
    /\ sessions = [s \in Sessions |-> IdleSession]
    /\ showInviteModal = FALSE
    /\ inviteWrites = <<>>
    /\ nSelects = 0
    /\ nWrites = 0
    /\ browsers = [b \in Browsers |-> NewBrowser]
    /\ accounts = <<>>
    /\ users = <<>>
    /\ usernames = [k \in UsernameKeys |-> <<>>]
    /\ nJoins = 0
    /\ nInvites = 0
    /\ nSubmits = 0
    /\ nTicks = 0
    /\ nUpdates = 0

InitWith(messageDocs) == InitLoaded(messageDocs, <<LoadedUserData>>)

Init == InitWith(InitialStore)

\* The page mounted over a backend where group 2 holds exactly one page.
InitOnePage == InitWith(OnePageStore)

\* ----------------------------------------------------------------- actions

\* handleGroupSelect(group), up to its await getDocs(initialQuery)
HandleGroupSelect(g) ==
    /\ mounted
    /\ Includes(groups, g)
    /\ nSelects < MaxSelects
    /\ selectedGroup' = g
    /\ messages' = <<>>
    /\ lastMessageRef' = <<>>
    /\ hasMoreMessages' = TRUE
    /\ liveSubs' = {l \in liveSubs : l.id \notin messageListener}
    /\ messageListener' = {}
    /\ inflight' = Append(inflight,
          [kind |-> "select", id |-> nSelects + 1, group |-> g, lastRef |-> <<>>])
    /\ observer' = ObserverEffect(g, TRUE, isLoadingMore, <<>>)
    /\ effectSub' = MessageListenerEffect(g, <<>>)
    /\ nSelects' = nSelects + 1
    /\ newMessage' = <<>>
    /\ UNCHANGED <<isLoadingMore, groups, creatingGroup, mounted,
                   groupsPending, scrollTimer, store, groupDocs, clock,
                   nWrites, userData, authCurrentUser>>
    /\ UNCHANGED joinVars
    /\ UNCHANGED elsewhereVars

\* The guard of loadMoreMessages: TRUE when it returns before fetching.
LoadMoreReturnsEarly(c) ==
    c.selectedGroup = NoGroup \/ ~c.hasMoreMessages \/ c.isLoadingMore

\* The condition under which the IntersectionObserver callback calls
\* loadMoreMessages.
ObserverCalls(c, isIntersecting) ==
    isIntersecting /\ c.hasMoreMessages /\ ~c.isLoadingMore

\* The IntersectionObserver callback, with the values it closed over; when
\* it calls loadMoreMessages and the guard passes, the run goes up to the
\* await getDocs of loadMessages.
ObserverCallback(isIntersecting) ==
    /\ observer # <<>>
    /\ LET c == observer[1] IN
       IF ObserverCalls(c, isIntersecting) /\ ~LoadMoreReturnsEarly(c)
       THEN /\ isLoadingMore' = TRUE
            /\ inflight' = Append(inflight,
                  [kind |-> "more", id |-> 0, group |-> c.selectedGroup,
                   lastRef |-> c.lastMessageRef])
            /\ observer' = ObserverEffect(selectedGroup, hasMoreMessages, TRUE,
                                          lastMessageRef)
       ELSE UNCHANGED <<isLoadingMore, inflight, observer>>
    /\ UNCHANGED <<selectedGroup, messages, lastMessageRef, hasMoreMessages,
                   messageListener, groups, creatingGroup, mounted, effectSub,
                   liveSubs, groupsPending, scrollTimer, store, groupDocs,
                   clock, nSelects, nWrites>>
    /\ UNCHANGED sendVars
    /\ UNCHANGED joinVars
    /\ UNCHANGED elsewhereVars

Without(s, i) == SubSeq(s, 1, i - 1) \o SubSeq(s, i + 1, Len(s))

\* loadMessages after its await getDocs, then the rest of loadMoreMessages;
\* the state updates of an unmounted page are dropped.
LoadMoreDone(i) ==
    /\ inflight[i].kind = "more"
    /\ inflight' = Without(inflight, i)
    /\ IF mounted
       THEN /\ LET r == inflight[i]
                   docs == MessagesQuery(r.group, r.lastRef)
               IN /\ hasMoreMessages' = HasMore(docs)
                  /\ messages' = LoadedMessages(messages, docs, r.lastRef)
                  /\ lastMessageRef' = NextLastRef(docs, lastMessageRef)
            /\ isLoadingMore' = FALSE
            /\ observer' = ObserverEffect(selectedGroup, hasMoreMessages', FALSE,
                                          lastMessageRef')
       ELSE UNCHANGED <<hasMoreMessages, messages, lastMessageRef,
                        isLoadingMore, observer>>
    /\ UNCHANGED <<selectedGroup, messageListener, groups, creatingGroup,
                   mounted, effectSub, liveSubs, groupsPending, scrollTimer,
                   store, groupDocs, clock, nSelects, nWrites>>
    /\ UNCHANGED sendVars
    /\ UNCHANGED joinVars
    /\ UNCHANGED elsewhereVars

\* getDocs of loadMessages rejects: the catch logs, loadMoreMessages goes on
LoadMoreError(i) ==
    /\ inflight[i].kind = "more"
    /\ inflight' = Without(inflight, i)
    /\ IF mounted
       THEN /\ isLoadingMore' = FALSE
            /\ observer' = ObserverEffect(selectedGroup, hasMoreMessages, FALSE,
                                          lastMessageRef)
       ELSE UNCHANGED <<isLoadingMore, observer>>
    /\ UNCHANGED <<selectedGroup, messages, lastMessageRef, hasMoreMessages,
                   messageListener, groups, creatingGroup, mounted, effectSub,
                   liveSubs, groupsPending, scrollTimer, store, groupDocs,
                   clock, nSelects, nWrites>>
    /\ UNCHANGED sendVars
    /\ UNCHANGED joinVars
    /\ UNCHANGED elsewhereVars

\* handleGroupSelect after its await getDocs: the first page, then onSnapshot
\* of the realtime query; the unsubscribe function is returned to no one.
\* On an unmounted page the state updates are dropped, the listener is
\* registered all the same.
InitialFetchDone(i) ==
    /\ inflight[i].kind = "select"
    /\ inflight' = Without(inflight, i)
    /\ LET r == inflight[i]
           docs == InitialQuery(r.group)
       IN /\ liveSubs' = liveSubs \cup {[id |-> r.id, group |-> r.group, seen |-> 0]}
          /\ IF mounted
             THEN /\ hasMoreMessages' = HasMore(docs)
                  /\ messages' = InitialMessages(docs)
                  /\ lastMessageRef' = NextLastRef(docs, lastMessageRef)
                  /\ observer' = ObserverEffect(selectedGroup, hasMoreMessages',
                                                isLoadingMore, lastMessageRef')
             ELSE UNCHANGED <<hasMoreMessages, messages, lastMessageRef, observer>>
    /\ UNCHANGED <<selectedGroup, isLoadingMore, messageListener, groups,
                   creatingGroup, mounted, effectSub, groupsPending,
                   scrollTimer, store, groupDocs, clock, nSelects, nWrites>>
    /\ UNCHANGED sendVars
    /\ UNCHANGED joinVars
    /\ UNCHANGED elsewhereVars

\* getDocs of handleGroupSelect rejects: the catch logs, nothing else runs
InitialFetchError(i) ==
    /\ inflight[i].kind = "select"
    /\ inflight' = Without(inflight, i)
    /\ UNCHANGED <<selectedGroup, messages, lastMessageRef, hasMoreMessages,
                   isLoadingMore, messageListener, groups, creatingGroup,
                   mounted, observer, effectSub, liveSubs, groupsPending,
                   scrollTimer, store, groupDocs, clock, nSelects, nWrites>>
    /\ UNCHANGED sendVars
    /\ UNCHANGED joinVars
    /\ UNCHANGED elsewhereVars

\* The callback of the message listener effect: the whole snapshot, sorted,
\* replaces the list, and a scroll to the end of the list is scheduled when
\* the snapshot is longer than the list the callback closed over.
EffectSnapshot ==
    /\ effectSub.pending
    /\ LET sortedMessages == SortedMessages(ListenerQuery(effectSub.group)) IN
       /\ messages' = sortedMessages
       /\ scrollTimer' =
             (scrollTimer \/ ShouldScroll(sortedMessages, effectSub.messagesLength))
    /\ effectSub' = [effectSub EXCEPT !.pending = FALSE]
    /\ UNCHANGED <<selectedGroup, lastMessageRef, hasMoreMessages,
                   isLoadingMore, messageListener, groups, creatingGroup,
                   mounted, observer, liveSubs, groupsPending, inflight, store,
                   groupDocs, clock, nSelects, nWrites>>
    /\ UNCHANGED sendVars
    /\ UNCHANGED joinVars
    /\ UNCHANGED elsewhereVars

\* The timer of the message listener fires: scrollToBottom, which moves the
\* view and no state.
ScrollToBottom ==
    /\ scrollTimer
    /\ scrollTimer' = FALSE
    /\ UNCHANGED <<selectedGroup, messages, lastMessageRef, hasMoreMessages,
                   isLoadingMore, messageListener, groups, creatingGroup,
                   mounted, observer, effectSub, liveSubs, groupsPending,
                   inflight, store, groupDocs, clock, nSelects, nWrites>>
    /\ UNCHANGED sendVars
    /\ UNCHANGED joinVars
    /\ UNCHANGED elsewhereVars

\* The callback of a listener of handleGroupSelect: the query has limit 1,
\* so the 'added' change is the newest document when that has changed.
LiveSnapshot(l) ==
    /\ LET top == RealtimeQuery(l.group) IN
       /\ top # <<>>
       /\ top[1].id # l.seen
       /\ messages' = IF mounted THEN MergeAdded(messages, top[1]) ELSE messages
       /\ liveSubs' = (liveSubs \ {l}) \cup {[l EXCEPT !.seen = top[1].id]}
    /\ UNCHANGED <<selectedGroup, lastMessageRef, hasMoreMessages,
                   isLoadingMore, messageListener, groups, creatingGroup,
                   mounted, observer, effectSub, groupsPending, scrollTimer,
                   inflight, store, groupDocs, clock, nSelects, nWrites>>
    /\ UNCHANGED sendVars
    /\ UNCHANGED joinVars
    /\ UNCHANGED elsewhereVars

\* The callback of the groups listener: the snapshot replaces the side bar.
GroupsSnapshot ==
    /\ groupsPending
    /\ groups' = GroupsQuery(Me)
    /\ groupsPending' = FALSE
    /\ UNCHANGED <<selectedGroup, messages, lastMessageRef, hasMoreMessages,
                   isLoadingMore, messageListener, creatingGroup, mounted,
                   observer, effectSub, liveSubs, scrollTimer, inflight, store,
                   groupDocs, clock, nSelects, nWrites>>
    /\ UNCHANGED sendVars
    /\ UNCHANGED joinVars
    /\ UNCHANGED elsewhereVars

\* handleCreateGroup up to its await addDoc: the new document is in the
\* local view at once, so the groups listener has a snapshot to deliver.
HandleCreateGroup ==
    /\ mounted
    /\ ~creatingGroup
    /\ authCurrentUser # <<>>
    /\ nSelects < MaxSelects
    /\ creatingGroup' = TRUE
    /\ groupDocs' = Append(groupDocs, GroupDoc(<<Me>>, <<>>))
    /\ groupsPending' = TRUE
    /\ inflight' = Append(inflight,
          [kind |-> "create", id |-> 0, group |-> Len(groupDocs) + 1,
           lastRef |-> <<>>])
    /\ nSelects' = nSelects + 1
    /\ UNCHANGED <<selectedGroup, messages, lastMessageRef, hasMoreMessages,
                   isLoadingMore, messageListener, groups, mounted, observer,
                   effectSub, liveSubs, scrollTimer, store, clock, nWrites>>
    /\ UNCHANGED sendVars
    /\ UNCHANGED joinVars
    /\ UNCHANGED elsewhereVars

\* handleCreateGroup after its await addDoc: the new group is put first in
\* the side bar and selected; the list, the cursor and hasMoreMessages are
\* not touched, and the message listener effect runs for the new id.
CreateGroupDone(i) ==
    /\ inflight[i].kind = "create"
    /\ inflight' = Without(inflight, i)
    /\ IF mounted
       THEN LET g == inflight[i].group IN
            /\ groups' = <<g>> \o groups
            /\ selectedGroup' = g
            /\ creatingGroup' = FALSE
            /\ observer' = ObserverEffect(g, hasMoreMessages, isLoadingMore,
                                          lastMessageRef)
            /\ effectSub' = MessageListenerEffect(g, messages)
       ELSE UNCHANGED <<groups, selectedGroup, creatingGroup, observer, effectSub>>
    /\ UNCHANGED <<messages, lastMessageRef, hasMoreMessages, isLoadingMore,
                   messageListener, mounted, liveSubs, groupsPending,
                   scrollTimer, store, groupDocs, clock, nSelects, nWrites>>
    /\ UNCHANGED sendVars
    /\ UNCHANGED joinVars
    /\ UNCHANGED elsewhereVars

\* addDoc of handleCreateGroup rejects: the local write is rolled back, the
\* catch logs, the finally block clears creatingGroup.
CreateGroupError(i) ==
    /\ inflight[i].kind = "create"
    /\ inflight' = Without(inflight, i)
    /\ groupDocs' = [groupDocs EXCEPT ![inflight[i].group].exists = FALSE]
    /\ groupsPending' = mounted
    /\ creatingGroup' = FALSE
    /\ UNCHANGED <<selectedGroup, messages, lastMessageRef, hasMoreMessages,
                   isLoadingMore, messageListener, groups, mounted, observer,
                   effectSub, liveSubs, scrollTimer, store, clock, nSelects,
                   nWrites>>
    /\ UNCHANGED sendVars
    /\ UNCHANGED joinVars
    /\ UNCHANGED elsewhereVars

\* The documents whose server timestamp is pending are the last of the store.
FirstPending ==
    IF \E k \in 1..Len(store) : ~Resolved(store[k])
    THEN CHOOSE k \in 1..Len(store) :
            /\ ~Resolved(store[k])
            /\ \A j \in 1..(k - 1) : Resolved(store[j])
    ELSE Len(store) + 1

\* The texts typed into the message input: " hi " and " ".
MessageTexts == { <<" ", "h", "i", " ">>, <<" ">> }

\* onChange of the message input: setNewMessage(e.target.value)
TypeMessage(text) ==
    /\ mounted
    /\ selectedGroup # NoGroup
    /\ newMessage # text
    /\ newMessage' = text
    /\ UNCHANGED <<selectedGroup, messages, lastMessageRef, hasMoreMessages,
                   isLoadingMore, messageListener, groups, creatingGroup,
                   mounted, observer, effectSub, liveSubs, groupsPending,
                   scrollTimer, inflight, store, groupDocs, clock, nSelects,
                   nWrites, userData, authCurrentUser>>
    /\ UNCHANGED joinVars
    /\ UNCHANGED elsewhereVars

\* The guard of handleSendMessage: TRUE when it returns before writing.
SendReturnsEarly ==
    \/ Trim(newMessage) = <<>>
    \/ selectedGroup = NoGroup
    \/ userData = <<>>
    \/ authCurrentUser = <<>>

\* The content with the trim left out.
MessageContentUntrimmed(text) == text

\* content: newMessage.trim()
MessageContent(text) == Trim(text)

\* messageData of handleSendMessage, stored under the id i: the server
\* timestamp is pending, createdAt is the client's clock.
MessageData(i, at) ==
    [id |-> i, groupId |-> selectedGroup, timestamp |-> <<>>, createdAt |-> at,
     content |-> MessageContent(newMessage), senderId |-> authCurrentUser[1],
     senderName |-> userData[1].username]

\* handleSendMessage up to its await addDoc: the document is in the local
\* view at once, its server timestamp pending. The form is rendered when a
\* group is selected.
HandleSendMessage ==
    /\ mounted
    /\ selectedGroup # NoGroup
    /\ nWrites < MaxWrites
    /\ IF SendReturnsEarly
       THEN UNCHANGED <<store, effectSub, clock, nWrites>>
       ELSE /\ store' = Append(store, MessageData(clock, clock))
            /\ effectSub' = Notified(effectSub, selectedGroup)
            /\ clock' = clock + 1
            /\ nWrites' = nWrites + 1
    /\ UNCHANGED <<selectedGroup, messages, lastMessageRef, hasMoreMessages,
                   isLoadingMore, messageListener, groups, creatingGroup,
                   mounted, observer, liveSubs, groupsPending, scrollTimer,
                   inflight, groupDocs, nSelects>>
    /\ UNCHANGED sendVars
    /\ UNCHANGED joinVars
    /\ UNCHANGED elsewhereVars

\* The backend rejects the oldest pending write: the document leaves the
\* local view, addDoc rejects and the catch of handleSendMessage logs.
SendError ==
    /\ FirstPending <= Len(store)
    /\ store' = Without(store, FirstPending)
    /\ effectSub' = Notified(effectSub, store[FirstPending].groupId)
    /\ UNCHANGED <<selectedGroup, messages, lastMessageRef, hasMoreMessages,
                   isLoadingMore, messageListener, groups, creatingGroup,
                   mounted, observer, liveSubs, groupsPending, scrollTimer,
                   inflight, groupDocs, clock, nSelects, nWrites>>
    /\ UNCHANGED sendVars
    /\ UNCHANGED joinVars
    /\ UNCHANGED elsewhereVars

\* The backend commits the oldest pending write and assigns its timestamp;
\* addDoc resolves and handleSendMessage goes on: setNewMessage('').
ServerAck ==
    /\ FirstPending <= Len(store)
    /\ LET k == FirstPending IN
       /\ store' = [store EXCEPT ![k].timestamp = <<Timestamp(clock)>>]
       /\ effectSub' = Notified(effectSub, store[k].groupId)
    /\ clock' = clock + 1
    /\ newMessage' = <<>>
    /\ UNCHANGED <<selectedGroup, messages, lastMessageRef, hasMoreMessages,
                   isLoadingMore, messageListener, groups, creatingGroup,
                   mounted, observer, liveSubs, groupsPending, scrollTimer,
                   inflight, groupDocs, nSelects, nWrites, userData,
                   authCurrentUser>>
    /\ UNCHANGED joinVars
    /\ UNCHANGED elsewhereVars

\* Another client sends a message to group g.
RemoteWrite(g) ==
    /\ nWrites < MaxWrites
    /\ LET k == FirstPending IN
       store' = SubSeq(store, 1, k - 1)
                  \o <<Doc(clock, g, <<Timestamp(clock)>>, clock)>>
                  \o SubSeq(store, k, Len(store))
    /\ effectSub' = Notified(effectSub, g)
    /\ clock' = clock + 1
    /\ nWrites' = nWrites + 1
    /\ UNCHANGED <<selectedGroup, messages, lastMessageRef, hasMoreMessages,
                   isLoadingMore, messageListener, groups, creatingGroup,
                   mounted, observer, liveSubs, groupsPending, scrollTimer,
                   inflight, groupDocs, nSelects>>
    /\ UNCHANGED sendVars
    /\ UNCHANGED joinVars
    /\ UNCHANGED elsewhereVars

\* The page is unmounted (handleSignOut navigates away): the cleanups of the
\* effects unsubscribe the groups listener and the listener of the message
\* listener effect and disconnect the observer; the state of the component
\* is discarded. Timers, requests in flight and the listeners registered
\* by handleGroupSelect go on.
Unmount ==
    /\ mounted
    /\ mounted' = FALSE
    /\ effectSub' = NoSub
    /\ observer' = <<>>
    /\ groupsPending' = FALSE
    /\ selectedGroup' = NoGroup
    /\ messages' = <<>>
    /\ lastMessageRef' = <<>>
    /\ hasMoreMessages' = TRUE
    /\ isLoadingMore' = FALSE
    /\ groups' = <<>>
    /\ creatingGroup' = FALSE
    /\ newMessage' = <<>>
    /\ userData' = <<>>
    /\ UNCHANGED <<messageListener, liveSubs, scrollTimer, inflight, store,
                   groupDocs, clock, nSelects, nWrites, authCurrentUser>>
    /\ UNCHANGED joinVars
    /\ UNCHANGED elsewhereVars

Next ==
    \/ \E g \in 1..Len(groupDocs) : HandleGroupSelect(g)
    \/ \E b \in BOOLEAN : ObserverCallback(b)
    \/ \E i \in 1..Len(inflight) : LoadMoreDone(i)
    \/ \E i \in 1..Len(inflight) : LoadMoreError(i)
    \/ \E i \in 1..Len(inflight) : InitialFetchDone(i)
    \/ \E i \in 1..Len(inflight) : InitialFetchError(i)
    \/ EffectSnapshot
    \/ ScrollToBottom
    \/ \E l \in liveSubs : LiveSnapshot(l)
    \/ GroupsSnapshot
    \/ HandleCreateGroup
    \/ \E i \in 1..Len(inflight) : CreateGroupDone(i)
    \/ \E i \in 1..Len(inflight) : CreateGroupError(i)
    \/ TypeMessage(<<" ", "h", "i", " ">>)
    \/ HandleSendMessage
    \/ ServerAck
    \/ \E g \in Groups : RemoteWrite(g)
    \/ Unmount

Spec == Init /\ [][Next]_vars

SpecOnePage == InitOnePage /\ [][Next]_vars

\* The auth session of the browser ends (a sign-out in another tab):
\* auth.currentUser is null from then on, and the page is still mounted
\* until App has handled the change.
SignedOutElsewhere ==
    /\ authCurrentUser # <<>>
    /\ authCurrentUser' = <<>>
    /\ UNCHANGED <<selectedGroup, messages, lastMessageRef, hasMoreMessages,
                   isLoadingMore, messageListener, groups, creatingGroup,
                   mounted, observer, effectSub, liveSubs, groupsPending,
                   scrollTimer, inflight, store, groupDocs, clock, nSelects,
                   nWrites, newMessage, userData>>
    /\ UNCHANGED joinVars
    /\ UNCHANGED elsewhereVars

\* The page loaded by a user with or without a user document.
InitSend == \E data \in {<<>>, <<LoadedUserData>>} : InitLoaded(InitialStore, data)

NextSend ==
    \/ \E g \in 1..Len(groupDocs) : HandleGroupSelect(g)
    \/ \E i \in 1..Len(inflight) : InitialFetchDone(i)
    \/ \E text \in MessageTexts : TypeMessage(text)
    \/ HandleSendMessage
    \/ ServerAck
    \/ SendError
    \/ EffectSnapshot
    \/ SignedOutElsewhere
    \/ Unmount

\* The message form: the user selects groups, types and sends; the write
\* is committed or rejected by the backend.
SpecSend == InitSend /\ [][NextSend]_vars

\* -------------------------------------------------------------- join modal

\* setShowJoinModal(true)
OpenJoinModal(s) ==
    /\ ~sessions[s].showJoinModal
    /\ sessions' = [sessions EXCEPT ![s].showJoinModal = TRUE]
    /\ UNCHANGED <<groupDocs, groupsPending, nJoins>>
    /\ UNCHANGED pageVars
    /\ UNCHANGED elsewhereVars

\* onChange of the input of the modal
TypeInviteCode(s, text) ==
    /\ sessions[s].showJoinModal
    /\ sessions' = [sessions EXCEPT ![s].inviteCode = ToUpperCase(text)]
    /\ UNCHANGED <<groupDocs, groupsPending, nJoins>>
    /\ UNCHANGED pageVars
    /\ UNCHANGED elsewhereVars

\* The close button of the modal.
CloseJoinModal(s) ==
    /\ sessions[s].showJoinModal
    /\ sessions' = [sessions EXCEPT ![s].showJoinModal = FALSE,
                                    ![s].inviteCode = <<>>]
    /\ UNCHANGED <<groupDocs, groupsPending, nJoins>>
    /\ UNCHANGED pageVars
    /\ UNCHANGED elsewhereVars

\* The query value with the trim left out.
NormalizedCodeUntrimmed(code) == ToUpperCase(code)

\* code.trim().toUpperCase(), the value the query compares inviteCode with
NormalizedCode(code) == ToUpperCase(Trim(code))

\* handleJoinGroup(inviteCode) by the join button, up to its await getDocs
HandleJoinGroup(s) ==
    /\ sessions[s].showJoinModal
    /\ ~sessions[s].joining
    /\ Trim(sessions[s].inviteCode) # <<>>
    /\ nJoins < MaxJoins
    /\ sessions' = [sessions EXCEPT ![s].joining = TRUE,
                                    ![s].pc = "getDocs",
                                    ![s].code = sessions[s].inviteCode]
    /\ nJoins' = nJoins + 1
    /\ UNCHANGED <<groupDocs, groupsPending>>
    /\ UNCHANGED pageVars
    /\ UNCHANGED elsewhereVars

\* where('inviteCode', '==', value), in the order of the document ids
InviteCodeQuery(value) ==
    SelectSeq(GroupIds, LAMBDA g : groupDocs[g].exists
                                      /\ groupDocs[g].inviteCode = <<value>>)

\* The membership test left out.
IsMemberNever(groupData, uid) == FALSE

\* groupData.members.includes(auth.currentUser.uid)
IsMember(groupData, uid) == Includes(groupData.members, uid)

\* The catch of handleJoinGroup with the finally block left out.
JoinFailedNoFinally(s, message) ==
    sessions' = [sessions EXCEPT ![s].pc = "idle",
                                 ![s].code = <<>>,
                                 ![s].group = NoGroup,
                                 ![s].alert = message]

\* The catch and the finally block of handleJoinGroup: alert(error.message),
\* setJoining(false).
JoinFailed(s, message) ==
    sessions' = [sessions EXCEPT ![s].joining = FALSE,
                                 ![s].pc = "idle",
                                 ![s].code = <<>>,
                                 ![s].group = NoGroup,
                                 ![s].alert = message]

\* handleJoinGroup after its await getDocs: the two checks, then updateDoc
\* up to its await.
JoinQueryDone(s) ==
    /\ sessions[s].pc = "getDocs"
    /\ LET docs == InviteCodeQuery(NormalizedCode(sessions[s].code)) IN
       IF docs = <<>>
       THEN JoinFailed(s, InvalidInviteCode)
       ELSE IF IsMember(groupDocs[docs[1]], SessionUser[s])
       THEN JoinFailed(s, AlreadyMember)
       ELSE sessions' = [sessions EXCEPT ![s].pc = "updateDoc",
                                         ![s].group = docs[1]]
    /\ UNCHANGED <<groupDocs, groupsPending, nJoins>>
    /\ UNCHANGED pageVars
    /\ UNCHANGED elsewhereVars

\* getDocs of handleJoinGroup rejects
JoinQueryError(s) ==
    /\ sessions[s].pc = "getDocs"
    /\ JoinFailed(s, BackendError)
    /\ UNCHANGED <<groupDocs, groupsPending, nJoins>>
    /\ UNCHANGED pageVars
    /\ UNCHANGED elsewhereVars

\* An update that appends without looking for the element.
ArrayAppend(arr, x) == Append(arr, x)

\* arrayUnion(x) applied to the stored array
ArrayUnion(arr, x) == IF Includes(arr, x) THEN arr ELSE Append(arr, x)

\* The backend applies the update and handleJoinGroup goes on after its
\* await updateDoc: the modal is closed; the groups listener of the page has
\* a snapshot to deliver when its user has become a member.
JoinUpdateDone(s) ==
    /\ sessions[s].pc = "updateDoc"
    /\ LET g == sessions[s].group
           uid == SessionUser[s]
       IN /\ groupDocs' = [groupDocs EXCEPT ![g].members = ArrayUnion(@, uid)]
          /\ groupsPending' =
                (groupsPending \/ (mounted /\ uid = Me
                                      /\ ~Includes(groupDocs[g].members, uid)))
    /\ sessions' = [sessions EXCEPT ![s].joining = FALSE,
                                    ![s].pc = "idle",
                                    ![s].code = <<>>,
                                    ![s].group = NoGroup,
                                    ![s].showJoinModal = FALSE,
                                    ![s].inviteCode = <<>>]
    /\ UNCHANGED nJoins
    /\ UNCHANGED pageVars
    /\ UNCHANGED elsewhereVars

\* updateDoc of handleJoinGroup rejects
JoinUpdateError(s) ==
    /\ sessions[s].pc = "updateDoc"
    /\ JoinFailed(s, BackendError)
    /\ UNCHANGED <<groupDocs, groupsPending, nJoins>>
    /\ UNCHANGED pageVars
    /\ UNCHANGED elsewhereVars

\* ------------------------------------------------------------ invite codes

\* The values of Math.random() explored: 0, 0.5 ("0.i"), "0.ba", and a value
\* of nine digits, "0.abababab7".
RandomValues ==
    { <<>>, <<18>>, <<11, 10>>, <<10, 11, 10, 11, 10, 11, 10, 11, 7>> }

\* generateInviteCode by the button of the group header, up to its await
\* updateDoc.
GenerateInviteCode(r) ==
    /\ mounted
    /\ selectedGroup # NoGroup
    /\ nInvites < MaxInvites
    /\ inviteWrites' = Append(inviteWrites, [group |-> selectedGroup,
                                             code |-> InviteCodeOf(r)])
    /\ nInvites' = nInvites + 1
    /\ UNCHANGED <<groupDocs, groupsPending, showInviteModal>>
    /\ UNCHANGED pageVars
    /\ UNCHANGED joinVars
    /\ UNCHANGED accountVars

\* An update that replaces the document, as setDoc without merge does.
SetInviteCode(groupData, code) == GroupDoc(<<>>, <<code>>)

\* updateDoc(ref, { inviteCode: code }) applied to the stored document
UpdateInviteCode(groupData, code) ==
    [groupData EXCEPT !.inviteCode = <<code>>]

\* The backend applies the update and generateInviteCode goes on after its
\* await: setInviteCode(code), setShowInviteModal(true). The groups
\* listener of the page has a snapshot of the changed document to deliver.
GenerateInviteCodeDone(i) ==
    /\ i \in 1..Len(inviteWrites)
    /\ groupDocs[inviteWrites[i].group].exists
    /\ groupDocs' = [groupDocs EXCEPT ![inviteWrites[i].group] =
                        UpdateInviteCode(@, inviteWrites[i].code)]
    /\ inviteWrites' = Without(inviteWrites, i)
    /\ sessions' = IF mounted
                   THEN [sessions EXCEPT ![1].inviteCode = inviteWrites[i].code]
                   ELSE sessions
    /\ showInviteModal' = (showInviteModal \/ mounted)
    /\ groupsPending' = (groupsPending \/ mounted)
    /\ UNCHANGED <<nJoins, nInvites>>
    /\ UNCHANGED pageVars
    /\ UNCHANGED accountVars

\* updateDoc of generateInviteCode rejects: the error is logged.
GenerateInviteCodeError(i) ==
    /\ i \in 1..Len(inviteWrites)
    /\ inviteWrites' = Without(inviteWrites, i)
    /\ UNCHANGED <<groupDocs, groupsPending, showInviteModal, nInvites>>
    /\ UNCHANGED pageVars
    /\ UNCHANGED joinVars
    /\ UNCHANGED accountVars

\* The close button of the invite modal.
CloseInviteModal ==
    /\ showInviteModal
    /\ showInviteModal' = FALSE
    /\ UNCHANGED <<groupDocs, groupsPending, inviteWrites, nInvites>>
    /\ UNCHANGED pageVars
    /\ UNCHANGED joinVars
    /\ UNCHANGED accountVars

\* The session of the other user joins while the invite codes change.
InviteSessions == {3}

NextInvite ==
    \/ \E g \in 1..Len(groupDocs) : HandleGroupSelect(g)
    \/ \E r \in RandomValues : GenerateInviteCode(r)
    \/ \E i \in 1..Len(inviteWrites) : GenerateInviteCodeDone(i)
    \/ \E i \in 1..Len(inviteWrites) : GenerateInviteCodeError(i)
    \/ CloseInviteModal
    \/ \E s \in InviteSessions : OpenJoinModal(s)
    \/ \E s \in InviteSessions, text \in TypedTexts : TypeInviteCode(s, text)
    \/ \E s \in InviteSessions : CloseJoinModal(s)
    \/ \E s \in InviteSessions : HandleJoinGroup(s)
    \/ \E s \in InviteSessions : JoinQueryDone(s)
    \/ \E s \in InviteSessions : JoinQueryError(s)
    \/ \E s \in InviteSessions : JoinUpdateDone(s)
    \/ \E s \in InviteSessions : JoinUpdateError(s)
    \/ GroupsSnapshot

\* The page selects groups and generates invite codes while the other
\* user joins; the requests of the feed stay unanswered.
SpecInvite == Init /\ [][NextInvite]_vars

NextJoin ==
    \/ \E s \in Sessions : OpenJoinModal(s)
    \/ \E s \in Sessions, text \in TypedTexts : TypeInviteCode(s, text)
    \/ \E s \in Sessions : CloseJoinModal(s)
    \/ \E s \in Sessions : HandleJoinGroup(s)
    \/ \E s \in Sessions : JoinQueryDone(s)
    \/ \E s \in Sessions : JoinQueryError(s)
    \/ \E s \in Sessions : JoinUpdateDone(s)
    \/ \E s \in Sessions : JoinUpdateError(s)
    \/ GroupsSnapshot

\* The join modals of the sessions over a page that does nothing else.
SpecJoin == Init /\ [][NextJoin]_vars


\* ---------------------------------------------------------------- AuthPage

\* The button below the form: setIsSignUp(!isSignUp), the messages cleared.
ToggleSignUp(b) ==
    /\ browsers[b].page = "AuthPage"
    /\ browsers' = [browsers EXCEPT ![b].isSignUp = ~@,
                                    ![b].error = NoMessage,
                                    ![b].message = NoMessage]
    /\ UNCHANGED <<accounts, users, usernames, nSubmits, nTicks, nUpdates>>
    /\ UNCHANGED chatVars

\* The call of handleAuth started for a form, at its first await.
StartedCall(br, f, pc) ==
    [br EXCEPT !.error = NoMessage, !.message = NoMessage, !.loading = TRUE,
               !.call = [pc |-> pc, form |-> f, uid |-> NoUser,
                         live |-> TRUE]]

\* handleAuth on submit, up to its first await: in sign-up mode the
\* validation checks, then checkUsername; in sign-in mode
\* signInWithEmailAndPassword. The button is disabled while loading.
HandleAuth(b, f) ==
    /\ browsers[b].page = "AuthPage"
    /\ ~browsers[b].loading
    /\ browsers[b].call.pc = "idle"
    /\ nSubmits < MaxSubmits
    /\ f \in (IF browsers[b].isSignUp THEN SignUpForms ELSE SignInForms)
    /\ browsers' =
          [browsers EXCEPT ![b] =
              IF ~browsers[b].isSignUp THEN StartedCall(@, f, "signIn")
              ELSE IF ValidationError(f) # NoMessage
              THEN [@ EXCEPT !.error = ValidationError(f),
                             !.message = NoMessage]
              ELSE StartedCall(@, f, "checkUsername")]
    /\ nSubmits' = nSubmits + 1
    /\ UNCHANGED <<accounts, users, usernames, nTicks, nUpdates>>
    /\ UNCHANGED chatVars

\* The catch and the finally block of handleAuth, and its returns after
\* setError: the message is shown unless AuthPage has been unmounted.
CallFailed(br, message) ==
    [br EXCEPT !.call = IdleCall,
               !.error = IF br.call.live THEN message ELSE @,
               !.loading = IF br.call.live THEN FALSE ELSE @]

\* handleAuth returns after its last await: the finally block.
CallReturned(br, message) ==
    [br EXCEPT !.call = IdleCall,
               !.message = IF br.call.live THEN message ELSE @,
               !.loading = IF br.call.live THEN FALSE ELSE @]

\* handleAuth at an await: the request fails and the catch block shows the
\* message of the error.
AuthRequestError(b, pc) ==
    /\ browsers[b].call.pc = pc
    /\ browsers' = [browsers EXCEPT ![b] = CallFailed(@, BackendError)]
    /\ UNCHANGED <<accounts, users, usernames, nSubmits, nTicks, nUpdates>>
    /\ UNCHANGED chatVars

\* checkUsername: whether the document of the lower-cased name exists
UsernameExists(username) == usernames[ToLowerCase(username)] # <<>>

\* handleAuth after its await checkUsername, up to its await
\* createUserWithEmailAndPassword
CheckUsernameDone(b) ==
    /\ browsers[b].call.pc = "checkUsername"
    /\ browsers' =
          [browsers EXCEPT ![b] =
              IF UsernameExists(@.call.form.username)
              THEN CallFailed(@, UsernameTaken)
              ELSE [@ EXCEPT !.call.pc = "createUser"]]
    /\ UNCHANGED <<accounts, users, usernames, nSubmits, nTicks, nUpdates>>
    /\ UNCHANGED chatVars

\* The auth provider answers createUserWithEmailAndPassword: the account is
\* created and the browser signed in to it, or the email is in use;
\* handleAuth goes on to its await updateProfile.
CreateUserDone(b) ==
    /\ browsers[b].call.pc = "createUser"
    /\ LET f == browsers[b].call.form
           uid == Len(accounts) + 1
       IN IF AccountOf(f.email) # NoUser
          THEN /\ browsers' = [browsers EXCEPT ![b] = CallFailed(@, EmailInUse)]
               /\ UNCHANGED <<accounts, users>>
          ELSE /\ accounts' = Append(accounts, Account(f.email, f.password))
               /\ users' = Append(users, <<>>)
               /\ browsers' =
                     [browsers EXCEPT ![b] =
                         [AuthStateChanged(@, uid, FALSE)
                             EXCEPT !.call.pc = "updateProfile",
                                    !.call.uid = uid]]
    /\ UNCHANGED <<usernames, nSubmits, nTicks, nUpdates>>
    /\ UNCHANGED chatVars

\* updateProfile(user, { displayName: username }) applied, up to the await
\* setDoc of the user document in createUserDocument
UpdateProfileDone(b) ==
    /\ browsers[b].call.pc = "updateProfile"
    /\ accounts' = [accounts EXCEPT ![browsers[b].call.uid].displayName =
                                        browsers[b].call.form.username]
    /\ browsers' = [browsers EXCEPT ![b].call.pc = "setUserDocument"]
    /\ UNCHANGED <<users, usernames, nSubmits, nTicks, nUpdates>>
    /\ UNCHANGED chatVars

\* createUserDocument: setDoc of the user document applied, up to the await
\* setDoc of the username document
SetUserDocumentDone(b) ==
    /\ browsers[b].call.pc = "setUserDocument"
    /\ users' = [users EXCEPT ![browsers[b].call.uid] =
                    <<UserDocument(browsers[b].call.form.email,
                                   browsers[b].call.form.username)>>]
    /\ browsers' = [browsers EXCEPT ![b].call.pc = "setUsernameDocument"]
    /\ UNCHANGED <<accounts, usernames, nSubmits, nTicks, nUpdates>>
    /\ UNCHANGED chatVars

\* setDoc(doc(db, 'usernames', username.toLowerCase()), { uid })
SetUsernameDocument(docs, key, uid) == [docs EXCEPT ![key] = <<uid>>]

\* createUserDocument: setDoc of the username document applied; handleAuth
\* goes on to its await sendEmailVerification
SetUsernameDocumentDone(b) ==
    /\ browsers[b].call.pc = "setUsernameDocument"
    /\ usernames' =
          SetUsernameDocument(usernames,
                              ToLowerCase(browsers[b].call.form.username),
                              browsers[b].call.uid)
    /\ browsers' = [browsers EXCEPT ![b].call.pc = "sendEmailVerification"]
    /\ UNCHANGED <<accounts, users, nSubmits, nTicks, nUpdates>>
    /\ UNCHANGED chatVars

\* sendEmailVerification done: setMessage, navigate('/verify-email'), and
\* the finally block
SendEmailVerificationDone(b) ==
    /\ browsers[b].call.pc = "sendEmailVerification"
    /\ accounts' = [accounts EXCEPT ![browsers[b].call.uid].mailed = TRUE]
    /\ browsers' =
          [browsers EXCEPT ![b] =
              Navigate(CallReturned(@, AccountCreated), "/verify-email")]
    /\ UNCHANGED <<users, usernames, nSubmits, nTicks, nUpdates>>
    /\ UNCHANGED chatVars

\* The auth provider answers signInWithEmailAndPassword: the browser is
\* signed in when the password is the one of the account of the email;
\* handleAuth goes on to its await updateDoc of lastLoginAt.
SignInDone(b) ==
    /\ browsers[b].call.pc = "signIn"
    /\ LET f == browsers[b].call.form
           uid == AccountOf(f.email)
       IN browsers' =
             [browsers EXCEPT ![b] =
                 IF uid = NoUser \/ accounts[uid].password # f.password
                 THEN CallFailed(@, InvalidCredentials)
                 ELSE [AuthStateChanged(@, uid, accounts[uid].emailVerified)
                          EXCEPT !.call.pc = "updateLastLogin",
                                 !.call.uid = uid]]
    /\ UNCHANGED <<accounts, users, usernames, nSubmits, nTicks, nUpdates>>
    /\ UNCHANGED chatVars

\* updateDoc of lastLoginAt answered, which fails when the user document
\* does not exist: navigate by user.emailVerified, and the finally block
UpdateLastLoginDone(b) ==
    /\ browsers[b].call.pc = "updateLastLogin"
    /\ browsers' =
          [browsers EXCEPT ![b] =
              IF users[@.call.uid] = <<>> THEN CallFailed(@, BackendError)
              ELSE Navigate(CallReturned(@, @.message),
                            IF @.emailVerified THEN "/chats"
                            ELSE "/verify-email")]
    /\ UNCHANGED <<accounts, users, usernames, nSubmits, nTicks, nUpdates>>
    /\ UNCHANGED chatVars

\* The awaits of handleAuth.
AuthAwaits ==
    {"checkUsername", "createUser", "updateProfile", "setUserDocument",
     "setUsernameDocument", "sendEmailVerification", "signIn",
     "updateLastLogin"}

\* --------------------------------------------------------------------- App

\* App renders: its routes read user.emailVerified, and the router shows
\* the location again.
AppRendered(br) ==
    Show([br EXCEPT !.renderedVerified =
                        br.appUser # NoUser /\ br.emailVerified],
         br.location)

\* The callback of the auth listener of App is called: without a user,
\* setUser(null) and setLoading(false); with one, up to its await reload.
AppAuthStateChanged(b, i) ==
    /\ i \in 1..Len(browsers[b].appCalls)
    /\ browsers[b].appCalls[i].pc = "notify"
    /\ browsers' =
          [browsers EXCEPT ![b] =
              IF @.currentUser = NoUser
              THEN AppRendered([@ EXCEPT !.appCalls = Without(@, i),
                                         !.appUser = NoUser,
                                         !.appLoading = FALSE])
              ELSE [@ EXCEPT !.appCalls[i] = [user |-> browsers[b].currentUser,
                                              pc |-> "reload"]]]
    /\ UNCHANGED <<accounts, users, usernames, nSubmits, nTicks, nUpdates>>
    /\ UNCHANGED chatVars

\* reload() of a user answered: the user object has the emailVerified of
\* the account.
Reloaded(br, uid) ==
    IF br.currentUser = uid
    THEN [br EXCEPT !.emailVerified = accounts[uid].emailVerified]
    ELSE br

\* The callback of App after its await reload: setUser(currentUser) and
\* setLoading(false). App renders when its state has changed: setting the
\* user object it already holds changes nothing.
AppReloadDone(b, i) ==
    /\ i \in 1..Len(browsers[b].appCalls)
    /\ browsers[b].appCalls[i].pc = "reload"
    /\ browsers' =
          [browsers EXCEPT ![b] =
              LET uid == @.appCalls[i].user
                  br == [Reloaded(@, uid) EXCEPT !.appCalls = Without(@, i),
                                                 !.appUser = uid,
                                                 !.appLoading = FALSE]
              IN IF @.appUser # uid \/ @.appLoading THEN AppRendered(br)
                 ELSE br]
    /\ UNCHANGED <<accounts, users, usernames, nSubmits, nTicks, nUpdates>>
    /\ UNCHANGED chatVars

\* reload() rejects in the callback of App: the callback ends there.
AppReloadError(b, i) ==
    /\ i \in 1..Len(browsers[b].appCalls)
    /\ browsers[b].appCalls[i].pc = "reload"
    /\ browsers' = [browsers EXCEPT ![b].appCalls = Without(@, i)]
    /\ UNCHANGED <<accounts, users, usernames, nSubmits, nTicks, nUpdates>>
    /\ UNCHANGED chatVars

\* ------------------------------------------------------------- VerifyEmail

\* The user opens the link of a verification email.
ClickVerificationLink(u) ==
    /\ u \in 1..Len(accounts)
    /\ accounts[u].mailed
    /\ ~accounts[u].emailVerified
    /\ accounts' = [accounts EXCEPT ![u].emailVerified = TRUE]
    /\ UNCHANGED <<browsers, users, usernames, nSubmits, nTicks, nUpdates>>
    /\ UNCHANGED chatVars

\* The interval of VerifyEmail fires: checkVerification up to its await
\* reload(user).
IntervalTick(b) ==
    /\ browsers[b].interval
    /\ browsers[b].currentUser # NoUser
    /\ nTicks < MaxTicks
    /\ browsers' =
          [browsers EXCEPT ![b].verifyCalls =
              Append(@, VerifyCall("check", "reload", browsers[b].currentUser))]
    /\ nTicks' = nTicks + 1
    /\ UNCHANGED <<accounts, users, usernames, nSubmits, nUpdates>>
    /\ UNCHANGED chatVars

\* handleManualRefresh by its button, up to its await reload(user)
HandleManualRefresh(b) ==
    /\ browsers[b].page = "VerifyEmail"
    /\ ~browsers[b].verifyLoading
    /\ browsers[b].currentUser # NoUser
    /\ nTicks < MaxTicks
    /\ browsers' =
          [browsers EXCEPT
              ![b].verifyLoading = TRUE,
              ![b].verifyCalls =
                  Append(@, VerifyCall("refresh", "reload",
                                       browsers[b].currentUser))]
    /\ nTicks' = nTicks + 1
    /\ UNCHANGED <<accounts, users, usernames, nSubmits, nUpdates>>
    /\ UNCHANGED chatVars

\* The test of checkVerification and of handleManualRefresh after reload
\* with the test left out.
ReportedVerifiedAlways(uid) == TRUE

\* user.emailVerified after reload(user): what the auth provider reports
ReportedVerified(uid) == accounts[uid].emailVerified

\* A call of VerifyEmail has ended: handleManualRefresh resets loading in
\* its finally block.
VerifyCallEnded(br, i) ==
    [br EXCEPT !.verifyCalls = Without(@, i),
               !.verifyLoading =
                   IF br.verifyCalls[i].kind = "refresh"
                         /\ br.verifyCalls[i].live
                   THEN FALSE ELSE @]

\* checkVerification or handleManualRefresh after its await reload: when
\* the email is verified, the interval is cleared, the message set and
\* updateUserVerificationStatus called up to its await updateDoc.
VerifyReloadDone(b, i) ==
    /\ i \in 1..Len(browsers[b].verifyCalls)
    /\ browsers[b].verifyCalls[i].pc = "reload"
    /\ LET c == browsers[b].verifyCalls[i]
           br == Reloaded(browsers[b], c.user)
       IN browsers' =
             [browsers EXCEPT ![b] =
                 IF ReportedVerified(c.user)
                 THEN [br EXCEPT !.verifyCalls[i].pc = "update",
                                 !.interval = IF c.kind = "check" /\ c.live
                                              THEN FALSE ELSE @,
                                 !.verifyMessage = IF c.live
                                                   THEN EmailVerifiedMessage
                                                   ELSE @]
                 ELSE IF c.kind = "refresh"
                 THEN VerifyCallEnded([br EXCEPT !.verifyMessage =
                                           IF c.live THEN NotVerifiedYet
                                           ELSE @], i)
                 ELSE VerifyCallEnded(br, i)]
    /\ UNCHANGED <<accounts, users, usernames, nSubmits, nTicks, nUpdates>>
    /\ UNCHANGED chatVars

\* reload(user) rejects: checkVerification logs the error,
\* handleManualRefresh shows its message.
VerifyReloadError(b, i) ==
    /\ i \in 1..Len(browsers[b].verifyCalls)
    /\ browsers[b].verifyCalls[i].pc = "reload"
    /\ LET c == browsers[b].verifyCalls[i] IN
       browsers' =
          [browsers EXCEPT ![b] =
              VerifyCallEnded([@ EXCEPT !.verifyError =
                                  IF c.kind = "refresh" /\ c.live
                                  THEN RefreshFailed ELSE @], i)]
    /\ UNCHANGED <<accounts, users, usernames, nSubmits, nTicks, nUpdates>>
    /\ UNCHANGED chatVars

\* The callback of the auth listener of VerifyEmail is called: without a
\* user navigate('/auth'); with a verified one
\* updateUserVerificationStatus up to its await updateDoc.
VerifyAuthStateChanged(b, i) ==
    /\ i \in 1..Len(browsers[b].verifyCalls)
    /\ browsers[b].verifyCalls[i].pc = "notify"
    /\ browsers' =
          [browsers EXCEPT ![b] =
              IF @.currentUser = NoUser
              THEN Navigate([@ EXCEPT !.verifyCalls = Without(@, i)], "/auth")
              ELSE IF @.emailVerified
              THEN [@ EXCEPT !.verifyCalls[i] =
                       VerifyCall("listener", "update", browsers[b].currentUser)]
              ELSE [@ EXCEPT !.verifyCalls = Without(@, i)]]
    /\ UNCHANGED <<accounts, users, usernames, nSubmits, nTicks, nUpdates>>
    /\ UNCHANGED chatVars

\* What follows updateUserVerificationStatus in its caller: the listener
\* navigates to /chats, the others set a timeout that will.
AfterVerificationStatus(br, i) ==
    IF br.verifyCalls[i].kind = "listener"
    THEN Navigate([br EXCEPT !.verifyCalls = Without(@, i)], "/chats")
    ELSE [VerifyCallEnded(br, i) EXCEPT !.timeouts = @ + 1]

\* updateDoc(userRef, { emailVerified: true, verifiedAt }) applied to the
\* stored document
VerifiedUserDocument(document) == [document EXCEPT !.emailVerified = TRUE]

\* updateUserVerificationStatus after its await updateDoc, which fails
\* when the user document does not exist, and the rest of its caller
UpdateVerificationStatusDone(b, i) ==
    /\ i \in 1..Len(browsers[b].verifyCalls)
    /\ browsers[b].verifyCalls[i].pc = "update"
    /\ nUpdates < MaxUpdates
    /\ LET uid == browsers[b].verifyCalls[i].user IN
       users' = IF users[uid] = <<>> THEN users
                ELSE [users EXCEPT ![uid] = <<VerifiedUserDocument(@[1])>>]
    /\ browsers' = [browsers EXCEPT ![b] = AfterVerificationStatus(@, i)]
    /\ nUpdates' = nUpdates + 1
    /\ UNCHANGED <<accounts, usernames, nSubmits, nTicks>>
    /\ UNCHANGED chatVars

\* updateDoc rejects: updateUserVerificationStatus logs the error, and its
\* caller goes on.
UpdateVerificationStatusError(b, i) ==
    /\ i \in 1..Len(browsers[b].verifyCalls)
    /\ browsers[b].verifyCalls[i].pc = "update"
    /\ nUpdates < MaxUpdates
    /\ browsers' = [browsers EXCEPT ![b] = AfterVerificationStatus(@, i)]
    /\ nUpdates' = nUpdates + 1
    /\ UNCHANGED <<accounts, users, usernames, nSubmits, nTicks>>
    /\ UNCHANGED chatVars

\* A timeout of VerifyEmail fires: navigate('/chats')
TimeoutFires(b) ==
    /\ browsers[b].timeouts > 0
    /\ browsers' = [browsers EXCEPT ![b] =
                       Navigate([@ EXCEPT !.timeouts = @ - 1], "/chats")]
    /\ UNCHANGED <<accounts, users, usernames, nSubmits, nTicks, nUpdates>>
    /\ UNCHANGED chatVars

\* handleSignOut of VerifyEmail up to the end of its await auth.signOut():
\* the session has no user, and the listeners are called.
HandleSignOut(b) ==
    /\ browsers[b].page = "VerifyEmail"
    /\ browsers[b].currentUser # NoUser
    /\ ~browsers[b].signingOut
    /\ browsers' = [browsers EXCEPT ![b] =
                       [AuthStateChanged(@, NoUser, FALSE)
                           EXCEPT !.signingOut = TRUE]]
    /\ UNCHANGED <<accounts, users, usernames, nSubmits, nTicks, nUpdates>>
    /\ UNCHANGED chatVars

\* handleSignOut after its await: navigate('/auth')
SignOutDone(b) ==
    /\ browsers[b].signingOut
    /\ browsers' = [browsers EXCEPT ![b] =
                       Navigate([@ EXCEPT !.signingOut = FALSE], "/auth")]
    /\ UNCHANGED <<accounts, users, usernames, nSubmits, nTicks, nUpdates>>
    /\ UNCHANGED chatVars

\* Both browsers on AuthPage: sign-ups and sign-ins, with App following the
\* auth session; the calls of VerifyEmail stay unanswered.
NextSignUp ==
    \/ \E b \in Browsers : ToggleSignUp(b)
    \/ \E b \in Browsers, f \in SignUpForms \cup SignInForms : HandleAuth(b, f)
    \/ \E b \in Browsers, pc \in AuthAwaits : AuthRequestError(b, pc)
    \/ \E b \in Browsers : CheckUsernameDone(b)
    \/ \E b \in Browsers : CreateUserDone(b)
    \/ \E b \in Browsers : UpdateProfileDone(b)
    \/ \E b \in Browsers : SetUserDocumentDone(b)
    \/ \E b \in Browsers : SetUsernameDocumentDone(b)
    \/ \E b \in Browsers : SendEmailVerificationDone(b)
    \/ \E b \in Browsers : SignInDone(b)
    \/ \E b \in Browsers : UpdateLastLoginDone(b)
    \/ \E b \in Browsers : \E i \in 1..Len(browsers[b].appCalls) : AppAuthStateChanged(b, i)
    \/ \E b \in Browsers : \E i \in 1..Len(browsers[b].appCalls) : AppReloadDone(b, i)
    \/ \E b \in Browsers : \E i \in 1..Len(browsers[b].appCalls) : AppReloadError(b, i)

SpecSignUp == Init /\ [][NextSignUp]_vars

\* One browser from its sign-up through VerifyEmail: the verification of
\* the email and the sign-out, with App following the auth session.
NextVerify ==
    \/ ToggleSignUp(1)
    \/ \E f \in VerifyForms : HandleAuth(1, f)
    \/ \E pc \in AuthAwaits : AuthRequestError(1, pc)
    \/ CheckUsernameDone(1)
    \/ CreateUserDone(1)
    \/ UpdateProfileDone(1)
    \/ SetUserDocumentDone(1)
    \/ SetUsernameDocumentDone(1)
    \/ SendEmailVerificationDone(1)
    \/ \E i \in 1..Len(browsers[1].appCalls) : AppAuthStateChanged(1, i)
    \/ \E i \in 1..Len(browsers[1].appCalls) : AppReloadDone(1, i)
    \/ \E i \in 1..Len(browsers[1].appCalls) : AppReloadError(1, i)
    \/ \E u \in 1..Len(accounts) : ClickVerificationLink(u)
    \/ IntervalTick(1)
    \/ HandleManualRefresh(1)
    \/ \E i \in 1..Len(browsers[1].verifyCalls) : VerifyReloadDone(1, i)
    \/ \E i \in 1..Len(browsers[1].verifyCalls) : VerifyReloadError(1, i)
    \/ \E i \in 1..Len(browsers[1].verifyCalls) : VerifyAuthStateChanged(1, i)
    \/ \E i \in 1..Len(browsers[1].verifyCalls) : UpdateVerificationStatusDone(1, i)
    \/ \E i \in 1..Len(browsers[1].verifyCalls) : UpdateVerificationStatusError(1, i)
    \/ TimeoutFires(1)
    \/ HandleSignOut(1)
    \/ SignOutDone(1)

SpecVerify == Init /\ [][NextVerify]_vars

\* The operations that show a busy flag, each with its responses: the page
\* selects groups, loads older pages and creates groups, the other user
\* joins with the code " ab ", and browser 1 signs up.
NextBusy ==
    \/ \E g \in 1..Len(groupDocs) : HandleGroupSelect(g)
    \/ \E i \in 1..Len(inflight) : InitialFetchDone(i)
    \/ \E b \in BOOLEAN : ObserverCallback(b)
    \/ \E i \in 1..Len(inflight) : LoadMoreDone(i)
    \/ \E i \in 1..Len(inflight) : LoadMoreError(i)
    \/ HandleCreateGroup
    \/ \E i \in 1..Len(inflight) : CreateGroupDone(i)
    \/ \E i \in 1..Len(inflight) : CreateGroupError(i)
    \/ \E s \in InviteSessions : OpenJoinModal(s)
    \/ \E s \in InviteSessions : TypeInviteCode(s, <<" ", "a", "b", " ">>)
    \/ \E s \in InviteSessions : HandleJoinGroup(s)
    \/ \E s \in InviteSessions : JoinQueryDone(s)
    \/ \E s \in InviteSessions : JoinQueryError(s)
    \/ \E s \in InviteSessions : JoinUpdateDone(s)
    \/ \E s \in InviteSessions : JoinUpdateError(s)
    \/ ToggleSignUp(1)
    \/ \E f \in VerifyForms : HandleAuth(1, f)
    \/ \E pc \in AuthAwaits : AuthRequestError(1, pc)
    \/ CheckUsernameDone(1)
    \/ CreateUserDone(1)
    \/ UpdateProfileDone(1)
    \/ SetUserDocumentDone(1)
    \/ SetUsernameDocumentDone(1)
    \/ SendEmailVerificationDone(1)
    \/ \E i \in 1..Len(browsers[1].appCalls) : AppAuthStateChanged(1, i)

SpecBusy == Init /\ [][NextBusy]_vars

\* ------------------------------------------------------------------ claims

\* C1: no two entries of the message list have the same message id.
C1_NoDuplicateIds ==
    \A i, j \in 1..Len(messages) : i # j => messages[i].id # messages[j].id

\* The effective timestamp of a message: the server timestamp if present,
\* else the client-side fallback captured at send time.
EffectiveTimestamp(d) ==
    IF Resolved(d) THEN d.timestamp[1] ELSE Timestamp(d.createdAt)

\* C2: the rendered list is in ascending order of effective timestamp.
C2_AscendingByEffectiveTimestamp ==
    \A i, j \in 1..Len(messages) :
        i < j => ~TsLess(EffectiveTimestamp(messages[j]),
                         EffectiveTimestamp(messages[i]))

\* The groups of the message subscriptions that are active.
ActiveSubscriptions ==
    (IF effectSub.group # NoGroup THEN 1 ELSE 0) + Cardinality(liveSubs)

SubscribedGroups ==
    {l.group : l \in liveSubs}
        \cup (IF effectSub.group # NoGroup THEN {effectSub.group} ELSE {})

\* C3: at most one live message subscription is active, and it is scoped to
\* the selected group.
C3_AtMostOneSubscription ==
    /\ ActiveSubscriptions <= 1
    /\ SubscribedGroups \subseteq {selectedGroup}

\* C4: every message of the list belongs to the selected group.
C4_OnlySelectedGroup ==
    \A i \in 1..Len(messages) : messages[i].groupId = selectedGroup

\* C5: a response to a fetch issued for another group than the one selected
\* when it arrives changes none of the list, the cursor and hasMore.
C5_StaleResponseIgnored ==
    [][\A i \in 1..Len(inflight) :
          (inflight[i].group # selectedGroup
              /\ (InitialFetchDone(i) \/ LoadMoreDone(i)))
          => UNCHANGED feedVars]_vars

LoadInFlight == \E k \in 1..Len(inflight) : inflight[k].kind = "more"

\* C6: the scroll trigger, run while hasMore is false or while a loadOlder is
\* in flight, issues no fetch and leaves the list, the cursor, hasMore and
\* the loading flag unchanged.
C6_GuardedLoadIsNoop ==
    [][((\E b \in BOOLEAN : ObserverCallback(b))
            /\ (~hasMoreMessages \/ isLoadingMore \/ LoadInFlight))
        => UNCHANGED <<messages, lastMessageRef, hasMoreMessages,
                       isLoadingMore, inflight>>]_vars

\* The scroll trigger can run with hasMore false and a loadOlder in flight.
C6_Witness ==
    /\ observer # <<>>
    /\ ~hasMoreMessages
    /\ isLoadingMore
    /\ LoadInFlight

\* C7: the scroll trigger, run while the cursor is unset, issues no fetch and
\* does not change the list.
C7_NoCursorNoFetch ==
    [][((\E b \in BOOLEAN : ObserverCallback(b)) /\ lastMessageRef = <<>>)
        => UNCHANGED <<messages, inflight>>]_vars

\* C8: the step that starts a group selection leaves the list empty, the
\* cursor unset and hasMore true, and none of the subscriptions registered
\* before it is still registered.
C8_SelectResetsFeed ==
    [][\A g \in Groups :
          HandleGroupSelect(g)
          => /\ messages' = <<>>
             /\ lastMessageRef' = <<>>
             /\ hasMoreMessages'
             /\ liveSubs \cap liveSubs' = {}
             /\ (effectSub.group \notin {NoGroup, g}
                    => effectSub'.group # effectSub.group)]_vars

\* The stored messages of group g, and the list holding each exactly once.
StoredIds(g) == {store[k].id : k \in {n \in 1..Len(store) : store[n].groupId = g}}

HoldsEachOnce(list, ids) ==
    \A x \in ids : Cardinality({k \in 1..Len(list) : list[k].id = x}) = 1

\* C9: without writes, a response for the selected group (a) to the initial
\* fetch leaves the min(M, N) most recent messages in the list and the
\* oldest of them as the cursor, and (b) that turns hasMore to false leaves
\* each of the M messages of the group in the list exactly once.
C9_PagesCoverGroup ==
    [][\A i \in 1..Len(inflight) :
          (/\ nWrites = 0
           /\ inflight[i].group = selectedGroup
           /\ InitialFetchDone(i) \/ LoadMoreDone(i))
          => /\ InitialFetchDone(i)
                => /\ messages' = InitialQuery(selectedGroup)
                   /\ Len(messages') =
                         Min(Cardinality(StoredIds(selectedGroup)), MESSAGES_PER_PAGE)
                   /\ messages' # <<>>
                         => lastMessageRef' = <<messages'[Len(messages')]>>
             /\ (hasMoreMessages /\ ~hasMoreMessages')
                => HoldsEachOnce(messages', StoredIds(selectedGroup))]_vars

\* C10: a loadOlder response with at least one document holds only messages
\* strictly older than the cursor the call was made with, is put after the
\* entries the list has, and its oldest document becomes the cursor.
C10_OlderPageAppended ==
    [][\A i \in 1..Len(inflight) :
          LET r == inflight[i]
              docs == MessagesQuery(r.group, r.lastRef)
          IN (LoadMoreDone(i) /\ Len(docs) >= 1)
             => /\ messages' = messages \o docs
                /\ r.lastRef # <<>>
                /\ \A k \in 1..Len(docs) : ComesAfter(docs[k], r.lastRef[1])
                /\ lastMessageRef' = <<docs[Len(docs)]>>]_vars

\* C11: when a fetch (the initial one or a loadOlder) completes, hasMore
\* becomes false exactly when it returned fewer than MESSAGES_PER_PAGE
\* documents, so a full page keeps it true even when nothing older is
\* stored; a loadOlder that returns no document sets hasMore to false and
\* leaves the cursor as it was.
C11_HasMoreIffFullPage ==
    [][\A i \in 1..Len(inflight) :
        LET r == inflight[i]
            docs == MessagesQuery(r.group, r.lastRef)
        IN  /\ (mounted /\ (InitialFetchDone(i) \/ LoadMoreDone(i))) =>
                   /\ Len(docs) <= MESSAGES_PER_PAGE
                   /\ ~hasMoreMessages' <=> Len(docs) < MESSAGES_PER_PAGE
            /\ (mounted /\ LoadMoreDone(i) /\ Len(docs) = 0) =>
                   /\ ~hasMoreMessages'
                   /\ lastMessageRef' = lastMessageRef]_vars

\* Group 2 holds exactly one page: the initial fetch returned all of it and
\* left hasMore true, the loadOlder after it returned nothing.
C11_Witness ==
    /\ selectedGroup = 2
    /\ nWrites = 0
    /\ Cardinality(StoredIds(2)) = MESSAGES_PER_PAGE
    /\ messages = InitialQuery(2)
    /\ lastMessageRef = <<messages[Len(messages)]>>
    /\ ~hasMoreMessages
    /\ inflight = <<>>

Occurrences(list, x) == Cardinality({k \in 1..Len(list) : list[k].id = x})

\* C12: the merge of the live subscription is idempotent. A delivery of an
\* 'added' document whose id is in the list leaves the list as it is; after
\* a delivery the document is in the list as often as before, or once if it
\* was absent, so a second delivery of it changes nothing; and the initial
\* fetch that returns the delivered message holds it once.
C12_MergeIdempotent ==
    [][/\ \A l \in liveSubs :
            (mounted /\ LiveSnapshot(l)) =>
               LET m == RealtimeQuery(l.group)[1] IN
               /\ HasId(messages, m.id) => messages' = messages
               /\ ~HasId(messages, m.id) => Occurrences(messages', m.id) = 1
               /\ \A k \in 1..Len(messages) : HasId(messages', messages[k].id)
       /\ \A i \in 1..Len(inflight) :
            (mounted /\ InitialFetchDone(i)) =>
               \A k \in 1..Len(messages') :
                  Occurrences(messages', messages'[k].id) = 1]_vars

\* Two listeners of the selected group have both delivered the newest
\* message, which the initial fetch returned too, and the list is the
\* fetched page.
C12_Witness ==
    /\ selectedGroup # NoGroup
    /\ messages # <<>>
    /\ messages = InitialQuery(selectedGroup)
    /\ \E l1, l2 \in liveSubs :
          /\ l1 # l2
          /\ l1.group = selectedGroup /\ l2.group = selectedGroup
          /\ l1.seen = messages[1].id /\ l2.seen = messages[1].id

LiveDelivery == EffectSnapshot \/ \E l \in liveSubs : LiveSnapshot(l)

\* C13: a delivery of a live subscription only adds messages: every message
\* of the selected group that is in the feed, the older pages appended by
\* loadOlder among them, is still in the feed after the delivery.
C13_LiveDeliveryKeepsLoaded ==
    [][LiveDelivery =>
          \A k \in 1..Len(messages) :
             messages[k].groupId = selectedGroup =>
                HasId(messages', messages[k].id)]_vars

\* C14: a message whose server timestamp is not resolved yet is ordered by
\* its createdAt: in the list that the message listener sorts, it is never
\* placed before a message sent earlier.
C14_PendingOrderedByCreatedAt ==
    [][EffectSnapshot =>
          \A i, j \in 1..Len(messages') :
             (i < j /\ ~Resolved(messages'[i])) =>
                ~TsLess(EffectiveTimestamp(messages'[j]),
                        EffectiveTimestamp(messages'[i]))]_vars

\* The last entry of the list after the step is a message that the list did
\* not hold before.
TailGrows ==
    /\ messages' # <<>>
    /\ ~HasId(messages, messages'[Len(messages')].id)

\* C15: a delivery of the message listener that makes the tail of the feed
\* grow schedules the scroll to the newest entry, and the completion of a
\* loadOlder schedules none.
C15_ScrollOnTailGrowthOnly ==
    [][/\ (EffectSnapshot /\ TailGrows) => scrollTimer'
       /\ \A i \in 1..Len(inflight) :
             LoadMoreDone(i) => scrollTimer' = scrollTimer]_vars

\* C16: once the page is unmounted no message subscription that it opened
\* is active (those opened by the group selections have been detached), and
\* no later push of the backend changes the state of the feed.
C16_NoSubscriptionAfterUnmount ==
    [][~mounted' =>
          /\ ActiveSubscriptions' = 0
          /\ ~mounted => UNCHANGED feedVars]_vars

\* The step has run the observer effect (isLoadingMore has changed) and the
\* observer it has created, whose first notification the browser delivers
\* on its own, passes the guards of the callback and of loadMoreMessages
\* when the container is in view.
RetryArmed ==
    /\ isLoadingMore' # isLoadingMore
    /\ observer' # <<>>
    /\ ObserverCalls(observer'[1], TRUE)
    /\ ~LoadMoreReturnsEarly(observer'[1])

\* C17: when the fetch of a loadOlder called with a cursor fails, the list,
\* the cursor and hasMore are left as they were, no request is issued by
\* the failure, and nothing is set up that repeats the fetch without a new
\* user action.
C17_FailedLoadLeavesFeed ==
    [][\A i \in 1..Len(inflight) :
          (mounted /\ inflight[i].lastRef # <<>> /\ LoadMoreError(i)) =>
             /\ UNCHANGED feedVars
             /\ inflight' = Without(inflight, i)
             /\ ~RetryArmed]_vars

Count(arr, x) == Cardinality({k \in 1..Len(arr) : arr[k] = x})

\* The group that the code of the join of session s resolves to when the
\* lookup answers: the first document whose stored invite code is the
\* argument, trimmed and upper-cased; NoGroup when there is none.
Resolves(s) ==
    LET value == ToUpperCase(Trim(sessions[s].code))
        matching == {g \in 1..Len(groupDocs) :
                        groupDocs[g].exists /\ groupDocs[g].inviteCode = <<value>>}
    IN  IF matching = {} THEN NoGroup
        ELSE CHOOSE g \in matching : \A h \in matching : g <= h

\* C18: a join whose code resolves to a group that has the user among its
\* members fails with the "already a member" alert, issues no write, and
\* leaves the member array with one entry of that user.
C18_AlreadyMemberRejected ==
    [][\A s \in Sessions :
          (/\ JoinQueryDone(s)
           /\ Resolves(s) # NoGroup
           /\ Includes(groupDocs[Resolves(s)].members, SessionUser[s])) =>
             /\ sessions'[s].alert = AlreadyMember
             /\ sessions'[s].pc = "idle"
             /\ groupDocs' = groupDocs
             /\ Count(groupDocs'[Resolves(s)].members, SessionUser[s]) = 1]_vars

\* A join of the user of the page with the code of group 2, of which the
\* user is a member, has been rejected.
C18_Witness ==
    \E s \in Sessions :
       /\ nJoins = 1
       /\ sessions[s].alert = AlreadyMember
       /\ sessions[s].pc = "idle"
       /\ ~sessions[s].joining
       /\ sessions[s].inviteCode = <<" ", "A", "B", " ">>
       /\ Count(groupDocs[2].members, SessionUser[s]) = 1

\* C19: a join fails with the "invalid code" alert exactly when its code,
\* trimmed and upper-cased, is the stored invite code of no group, and then
\* no group document changes.
C19_InvalidCodeRejected ==
    [][\A s \in Sessions :
          JoinQueryDone(s) =>
             /\ Resolves(s) = NoGroup =>
                   /\ sessions'[s].alert = InvalidInviteCode
                   /\ sessions'[s].pc = "idle"
                   /\ groupDocs' = groupDocs
             /\ Resolves(s) # NoGroup =>
                   \/ sessions'[s].pc = "updateDoc"
                   \/ sessions'[s].alert = AlreadyMember]_vars

\* The join with "BB", which no group has as its code, has been rejected.
C19_Witness ==
    \E s \in Sessions :
       /\ nJoins = 1
       /\ sessions[s].alert = InvalidInviteCode
       /\ sessions[s].pc = "idle"
       /\ sessions[s].inviteCode = <<"B", "B">>
       /\ groupDocs = InitialGroupDocs

MembersUnique ==
    \A g \in 1..Len(groupDocs) :
       \A k, n \in 1..Len(groupDocs[g].members) :
          k # n => groupDocs[g].members[k] # groupDocs[g].members[n]

\* C20: no member array holds a user id twice, however the joins interleave,
\* and the write of a join adds the id of its user when it is absent,
\* removes no member and changes no other group.
C20_MembersStayUnique ==
    [][/\ MembersUnique /\ MembersUnique'
       /\ \A s \in Sessions :
             JoinUpdateDone(s) =>
                LET g == sessions[s].group
                    old == groupDocs[g].members
                    new == groupDocs'[g].members
                IN  /\ Count(new, SessionUser[s]) = 1
                    /\ ~Includes(old, SessionUser[s]) =>
                          new = Append(old, SessionUser[s])
                    /\ \A k \in 1..Len(old) : Includes(new, old[k])
                    /\ Len(new) <= Len(old) + 1
                    /\ \A h \in 1..Len(groupDocs) :
                          h # g => groupDocs'[h] = groupDocs[h]]_vars

\* The two sessions of the user of the page have both joined group 3: each
\* passed the membership check before the other wrote, neither got an
\* alert, and group 3 holds the user once.
C20_Witness ==
    /\ nJoins = 2
    /\ \A s \in Sessions : sessions[s].pc = "idle" /\ sessions[s].alert = NoAlert
    /\ groupDocs[2] = InitialGroupDocs[2]
    /\ groupDocs[3].members = <<Other, Me>>

\* C21: once the invite code of a group has been replaced, no join that
\* presents the old code adds a member to the group: the write of a join
\* adds a member only while the code it presented, trimmed and upper-cased,
\* is still the stored invite code of the group, also when its lookup ran
\* before the replacement. The replacements looked at are those by a code
\* of 8 characters.
C21_OldCodeAddsNoMember ==
    [][\A s \in Sessions :
          (/\ JoinUpdateDone(s)
           /\ groupDocs[sessions[s].group].inviteCode # <<>>
           /\ Len(groupDocs[sessions[s].group].inviteCode[1]) = 8
           /\ groupDocs[sessions[s].group].inviteCode
                 # <<NormalizedCode(sessions[s].code)>>) =>
             groupDocs'[sessions[s].group].members
                = groupDocs[sessions[s].group].members]_vars

\* C22: the write of generateInviteCode changes the inviteCode field of the
\* selected group and nothing else: the members and the other fields of the
\* group, and every other group, stay as they are.
C22_RegenerationKeepsMembers ==
    [][\A i \in 1..Len(inviteWrites) :
          GenerateInviteCodeDone(i) =>
             LET g == inviteWrites[i].group IN
                /\ groupDocs'[g].inviteCode = <<inviteWrites[i].code>>
                /\ groupDocs'[g].members = groupDocs[g].members
                /\ groupDocs'[g].exists = groupDocs[g].exists
                /\ DOMAIN groupDocs'[g] = DOMAIN groupDocs[g]
                /\ \A h \in 1..Len(groupDocs) :
                      h # g => groupDocs'[h] = groupDocs[h]]_vars

\* The other user joined group 2 with its first code; the code has been
\* replaced since, and the user is still a member.
C22_Witness ==
    /\ nInvites = 1
    /\ inviteWrites = <<>>
    /\ showInviteModal
    /\ groupDocs[2].inviteCode # InitialGroupDocs[2].inviteCode
    /\ groupDocs[2].members = <<Me, Other>>

\* The characters of an invite code: "A" .. "Z" and "0" .. "9".
InviteCodeChars ==
    {UpperCaseLetters[k] : k \in 1..Len(UpperCaseLetters)}
       \cup {DecimalDigits[k] : k \in 1..Len(DecimalDigits)}

\* C23: every code that generateInviteCode sends to the backend has
\* exactly 8 characters, each an upper-case letter or a digit, whatever
\* value the random source returned.
C23_CodeHasEightChars ==
    [][nInvites' > nInvites =>
          LET code == inviteWrites'[Len(inviteWrites')].code IN
             /\ Len(code) = 8
             /\ \A k \in 1..Len(code) : code[k] \in InviteCodeChars]_vars

\* C24: a username document, once written for a user id, is never
\* overwritten: no step changes the user id that a reservation holds, also
\* when two sign-ups with the same name have both passed the check.
C24_ReservationNeverOverwritten ==
    [][\A k \in UsernameKeys :
          usernames[k] # <<>> => usernames'[k] = usernames[k]]_vars

\* C25: no two user documents hold user names that are equal after
\* lower-casing.
C25_UsernamesUnique ==
    \A u, v \in 1..Len(users) :
       (u # v /\ users[u] # <<>> /\ users[v] # <<>>) =>
          ToLowerCase(users[u][1].username) # ToLowerCase(users[v][1].username)

\* The awaits of a sign-up at which its account exists.
AccountAwaits ==
    {"updateProfile", "setUserDocument", "setUsernameDocument",
     "sendEmailVerification"}

\* C26: when a sign-up that created an account ends, with success or with
\* an error, the user document of its user id exists exactly when the
\* username document of its lower-cased name exists and holds that id.
C26_ProfileIffReservation ==
    [][\A b \in Browsers :
          (/\ browsers[b].call.pc \in AccountAwaits
           /\ browsers'[b].call.pc = "idle") =>
             LET uid == browsers[b].call.uid
                 key == ToLowerCase(browsers[b].call.form.username)
             IN  (users'[uid] # <<>>) <=> (usernames'[key] = <<uid>>)]_vars

\* C27: while a sign-up runs, its account exists only if its username
\* document has been written.
C27_ReservationBeforeAccount ==
    \A b \in Browsers :
       browsers[b].call.pc \in AccountAwaits =>
          usernames[ToLowerCase(browsers[b].call.form.username)]
             = <<browsers[b].call.uid>>

\* A form that the validation of a sign-up has to reject.
FailsValidation(f) ==
    \/ f.password # f.confirmPassword
    \/ Len(f.password) < 6
    \/ Len(f.username) < 3

\* C28: a sign-up submission whose passwords differ, whose password has
\* fewer than 6 or whose user name has fewer than 3 characters, or whose
\* user name is reserved, shows an error and ends there: handleAuth is not
\* running afterwards, and no account, no user document and no username
\* document has been written. The error of a reserved name is shown by the
\* AuthPage that was submitted, if it is still mounted.
C28_RejectedSignUpCreatesNothing ==
    [][\A b \in Browsers :
          /\ \A f \in SignUpForms :
                (HandleAuth(b, f) /\ browsers[b].isSignUp
                    /\ FailsValidation(f)) =>
                   /\ browsers'[b].error # NoMessage
                   /\ ~browsers'[b].loading
                   /\ browsers'[b].call.pc = "idle"
                   /\ UNCHANGED <<accounts, users, usernames>>
          /\ (/\ CheckUsernameDone(b)
              /\ usernames[ToLowerCase(browsers[b].call.form.username)]
                    # <<>>) =>
                   /\ browsers[b].call.live =>
                         /\ browsers'[b].error = UsernameTaken
                         /\ ~browsers'[b].loading
                   /\ browsers'[b].call.pc = "idle"
                   /\ UNCHANGED <<accounts, users, usernames>>]_vars

\* The sign-up of "bob" in the second browser has been rejected because
\* "Bob" had signed up in the first, and nothing has been written for it.
C28_Witness ==
    /\ browsers[2].error = UsernameTaken
    /\ browsers[2].page = "AuthPage"
    /\ browsers[2].call.pc = "idle"
    /\ nSubmits = 2
    /\ Len(accounts) = 1
    /\ users[1] # <<>>
    /\ usernames[LowerBob] = <<1>>

\* The emailVerified field of the user document of a user id is true.
PersistedVerified(docs, u) == docs[u] # <<>> /\ docs[u][1].emailVerified

\* C29: the emailVerified field of a user document is true only if the auth
\* provider holds the email of that user as verified, and no step makes a
\* field that is true false again or removes its document.
C29_VerifiedFlagSound ==
    [][\A u \in 1..Len(users') :
          /\ PersistedVerified(users', u) => accounts'[u].emailVerified
          /\ (u <= Len(users) /\ PersistedVerified(users, u)) =>
                PersistedVerified(users', u)]_vars

\* The user has opened the link and VerifyEmail has written the field.
C29_Witness ==
    /\ Len(users) = 1
    /\ PersistedVerified(users, 1)
    /\ accounts[1].emailVerified
    /\ browsers[1].emailVerified

\* The page shown agrees with the auth session of the browser.
RouteGate(br) ==
    /\ br.page = "ChatsPage" => br.currentUser # NoUser /\ br.emailVerified
    /\ br.page = "VerifyEmail" => br.currentUser # NoUser /\ ~br.emailVerified
    /\ br.page = "AuthPage" => br.currentUser = NoUser

\* The steps in which the router shows a path: a call of navigate, or a
\* render of App.
Navigates(b) ==
    \/ SendEmailVerificationDone(b)
    \/ UpdateLastLoginDone(b)
    \/ TimeoutFires(b)
    \/ SignOutDone(b)
    \/ \E i \in 1..Len(browsers[b].verifyCalls) :
          \/ /\ browsers[b].currentUser = NoUser
             /\ VerifyAuthStateChanged(b, i)
          \/ /\ browsers[b].verifyCalls[i].kind = "listener"
             /\ \/ UpdateVerificationStatusDone(b, i)
                \/ UpdateVerificationStatusError(b, i)
    \/ \E i \in 1..Len(browsers[b].appCalls) :
          \/ AppAuthStateChanged(b, i)
          \/ AppReloadDone(b, i)

\* C30: whenever the router shows a page, App having handled every change
\* of the auth session and holding its user, the page agrees with the
\* session: ChatsPage only
\* for a signed-in user whose email is verified, VerifyEmail only for a
\* signed-in user whose email is not verified, AuthPage only without a
\* user; the other combinations are redirected.
C30_RouteGating ==
    [][\A b \in Browsers :
          (/\ Navigates(b)
           /\ ~browsers'[b].appLoading
           /\ browsers'[b].appCalls = <<>>
           /\ browsers'[b].appUser = browsers'[b].currentUser) =>
             RouteGate(browsers'[b])]_vars

\* A call of handleAuth of browser b ends in this step.
AuthSubmitFinishes(b) ==
    /\ browsers[b].call.pc # "idle"
    /\ browsers'[b].call.pc = "idle"

\* The call of handleJoinGroup of session s ends in this step.
JoinFinishes(s) == sessions[s].pc # "idle" /\ sessions'[s].pc = "idle"

\* A call of handleCreateGroup ends in this step.
CreateGroupFinishes ==
    \E i \in 1..Len(inflight) : CreateGroupDone(i) \/ CreateGroupError(i)

\* A call of loadMoreMessages ends in this step.
LoadMoreFinishes ==
    \E i \in 1..Len(inflight) : LoadMoreDone(i) \/ LoadMoreError(i)

\* C31: when an auth submit, a join, a group creation or a load of older
\* messages finishes, with success or with a failure, its busy flag
\* (loading of an AuthPage that is still mounted, joining, creatingGroup,
\* isLoadingMore) is false in the state it leaves.
C31_BusyFlagsCleared ==
    [][ /\ \A b \in Browsers :
              AuthSubmitFinishes(b) /\ browsers[b].call.live
                 => ~browsers'[b].loading
        /\ \A s \in Sessions : JoinFinishes(s) => ~sessions'[s].joining
        /\ CreateGroupFinishes => ~creatingGroup'
        /\ LoadMoreFinishes => ~isLoadingMore' ]_vars

\* A failed sign-up and a failed join have shown their messages and an
\* older page has been loaded, with no request left and every flag false.
C31_Witness ==
    /\ browsers[1].error = BackendError /\ ~browsers[1].loading
    /\ browsers[1].call.pc = "idle"
    /\ \E s \in Sessions : /\ sessions[s].alert = BackendError
                           /\ sessions[s].pc = "idle"
                           /\ ~sessions[s].joining
    /\ Len(messages) > MESSAGES_PER_PAGE
    /\ inflight = <<>>
    /\ ~isLoadingMore
    /\ ~creatingGroup

\* C32: the pagination cursor, when set, refers to a message of the
\* selected group, the oldest one of the list fetched for it, after every
\* step that changes the selected group, the selection of a newly created
\* group included.
C32_CursorOfSelectedGroup ==
    [][ selectedGroup' # selectedGroup /\ lastMessageRef' # <<>>
           => /\ lastMessageRef'[1].groupId = selectedGroup'
              /\ \A k \in 1..Len(messages') :
                    Resolved(messages'[k]) /\ Resolved(lastMessageRef'[1])
                       => ~TsLess(messages'[k].timestamp[1],
                                  lastMessageRef'[1].timestamp[1]) ]_vars

\* C33: after the message listener has sorted a snapshot, two messages whose
\* server timestamps have the same seconds and different nanoseconds stand
\* in the order of their nanoseconds, the earlier one first.
C33_SameSecondAscending ==
    [][ EffectSnapshot
           => \A i, j \in 1..Len(messages') :
                 /\ i < j
                 /\ Resolved(messages'[i]) /\ Resolved(messages'[j])
                 /\ messages'[i].timestamp[1].seconds
                       = messages'[j].timestamp[1].seconds
                 => messages'[i].timestamp[1].nanoseconds
                       <= messages'[j].timestamp[1].nanoseconds ]_vars

\* C34: the list of groups of the side bar never holds the same group id
\* twice, however the creation of a group and the deliveries of the groups
\* listener interleave.
C34_GroupsListedOnce ==
    \A i, j \in 1..Len(groups) : groups[i] = groups[j] => i = j

\* C35: a send with a blank text, without a selected group, without user
\* data or without a signed-in user writes nothing; any other send creates
\* exactly one message document, with the trimmed text as content, the id
\* of the current user as sender and the id of the group selected at the
\* call; a send whose write fails leaves the text of the input as it is.
C35_SendWritesOneMessage ==
    [][ /\ HandleSendMessage =>
              IF \/ Trim(newMessage) = <<>> \/ selectedGroup = NoGroup
                 \/ userData = <<>> \/ authCurrentUser = <<>>
              THEN store' = store
              ELSE /\ Len(store') = Len(store) + 1
                   /\ SubSeq(store', 1, Len(store)) = store
                   /\ store'[Len(store')].content = Trim(newMessage)
                   /\ store'[Len(store')].senderId = authCurrentUser[1]
                   /\ store'[Len(store')].groupId = selectedGroup
                   /\ newMessage' = newMessage
        /\ SendError => newMessage' = newMessage ]_vars

\* The message " hi " has been sent and committed: the document holds the
\* trimmed text, the user of the page and the selected group, and the
\* input is empty.
C35_Witness ==
    /\ mounted
    /\ newMessage = <<>>
    /\ \E k \in 1..Len(store) :
          /\ store[k].content = <<"h", "i">>
          /\ store[k].senderId = Me
          /\ store[k].groupId = selectedGroup
          /\ Resolved(store[k])

\* C36: when the initial fetch of the latest selection fails, the step
\* leaves the list empty, the cursor unset and hasMore true, and no
\* listener of handleGroupSelect is registered for that selection.
C36_FailedInitialFetch ==
    [][\A i \in 1..Len(inflight) :
          (mounted /\ inflight[i].id = nSelects /\ InitialFetchError(i)) =>
             /\ messages' = <<>>
             /\ lastMessageRef' = <<>>
             /\ hasMoreMessages'
             /\ \A l \in liveSubs' : l.id # inflight[i].id]_vars

====
